---------------------------- MODULE Spec2Model ----------------------------
(***************************************************************************)
(* Model of gsIetiMapper (src/src/gsIeti/gsIetiMapper.hpp): the dof        *)
(* bookkeeping of the IETI solvers.  Indices are 0-based as in the code:   *)
(* a std::vector or Eigen vector is a function over 0..n-1.                *)
(*                                                                         *)
(* GISMO_ASSERT is modelled as enabled (debug build): a failed assertion   *)
(* throws and the call ends there, leaving every assignment made before    *)
(* it in place.  The thrown error is classified as in the error taxonomy:  *)
(* SequencingError, ConfigurationError, InternalInvariantViolation.        *)
(***************************************************************************)
EXTENDS Integers, Sequences, FiniteSets, TLC

VARIABLES m_status, m_multiBasis, m_dofMapperGlobal, m_dofMapperLocal,
          m_fixedPart, m_jumpMatrices, m_nPrimalDofs, m_primalConstraints,
          m_primalDofIndices, m_artificialDofInfo, customCalls, call

\* the members of the mapper object
state == <<m_status, m_multiBasis, m_dofMapperGlobal, m_dofMapperLocal,
           m_fixedPart, m_jumpMatrices, m_nPrimalDofs, m_primalConstraints,
           m_primalDofIndices, m_artificialDofInfo>>

\* customCalls: customPrimalConstraints calls since the last init
\* call: the last call, its arguments and its outcome
vars == <<state, customCalls, call>>

(***************************************************************************)
(* Bounds                                                                  *)
(***************************************************************************)
\* longest 1D chain of subdomains among the inputs
MaxChain == 3
\* customPrimalConstraints calls per init
MaxCustomCalls == 2

(***************************************************************************)
(* 0-based containers                                                      *)
(***************************************************************************)
Arr(s) == [i \in 0..(Len(s) - 1) |-> s[i + 1]]

Size(a) == Cardinality(DOMAIN a)

Empty == <<>>

PushBack(a, x) == [i \in 0..Size(a) |-> IF i < Size(a) THEN a[i] ELSE x]

RECURSIVE SumTo(_, _)
SumTo(f, n) == IF n = 0 THEN 0 ELSE f[n - 1] + SumTo(f, n - 1)

\* the sequence (1-based) of the elements of a set of integers, ascending
RECURSIVE Ascending(_)
Ascending(S) ==
    IF S = {} THEN <<>>
    ELSE LET m == CHOOSE x \in S : \A y \in S : x <= y
         IN <<m>> \o Ascending(S \ {m})

(***************************************************************************)
(* m_status bits                                                           *)
(***************************************************************************)
HasFlag(status, flag) == (status \div flag) % 2 = 1

SetFlag(status, flag) == IF HasFlag(status, flag) THEN status ELSE status + flag

\* 1 << n
RECURSIVE Shl1(_)
Shl1(n) == IF n = 0 THEN 1 ELSE 2 * Shl1(n - 1)

(***************************************************************************)
(* gsDofMapper queries used by the mapper.  Global indices: free dofs are  *)
(* 0..freeSize-1, the coupled ones are the last coupledSize of them, the   *)
(* eliminated (boundary) ones follow.                                      *)
(***************************************************************************)
GIndex(dm, i, k) == dm.index[k][i]

IsFreeIndex(dm, g) == g < dm.freeSize

IsBoundaryIndex(dm, g) == g >= dm.freeSize /\ g < dm.freeSize + dm.boundarySize

IsCoupledIndex(dm, g) == g < dm.freeSize /\ g + dm.coupledSize + 1 > dm.freeSize

CIndex(dm, i, k) == GIndex(dm, i, k) + dm.coupledSize - dm.freeSize

BIndex(dm, i, k) == GIndex(dm, i, k) - dm.freeSize

IsFree(dm, i, k) == IsFreeIndex(dm, GIndex(dm, i, k))

IsCoupled(dm, i, k) == IsCoupledIndex(dm, GIndex(dm, i, k))

\* every (patch, index) slot of the mapper, patch by patch, as a sequence
RECURSIVE SlotsFrom(_, _, _)
SlotsFrom(sizes, k, i) ==
    IF k >= Size(sizes) THEN <<>>
    ELSE IF i >= sizes[k] THEN SlotsFrom(sizes, k + 1, 0)
    ELSE <<[patch |-> k, idx |-> i]>> \o SlotsFrom(sizes, k, i + 1)

Slots(sizes) == SlotsFrom(sizes, 0, 0)

\* gsDofMapper::preImage
PreImage(dm, g) == SelectSeq(Slots(dm.patchSize), LAMBDA s : GIndex(dm, s.idx, s.patch) = g)

\* a default-constructed gsDofMapper
DefaultDofMapper ==
    [componentsSize |-> 1, numPatches |-> 0, patchSize |-> Empty, index |-> Empty,
     freeSize |-> 0, coupledSize |-> 0, boundarySize |-> 0]

\* setIdentity(1,nDofs), eliminateDof(i,0) for the i in elim, finalize():
\* the free dofs are numbered first, in order, then the eliminated ones
LocalMapper(nDofs, elim) ==
    LET nFree == nDofs - Cardinality(elim)
    IN [size |-> nDofs,
        freeSize |-> nFree,
        boundarySize |-> Cardinality(elim),
        index |-> [i \in 0..(nDofs - 1) |->
                     IF i \in elim
                     THEN nFree + Cardinality({j \in elim : j < i})
                     ELSE Cardinality({j \in 0..(i - 1) : j \notin elim})]]

DefaultLocalMapper == [size |-> 0, freeSize |-> 0, boundarySize |-> 0, index |-> Empty]

\* gsDofMapper::inverseOnPatch of a local mapper
InverseOnPatch(lm, c) == CHOOSE i \in DOMAIN lm.index : lm.index[i] = c

(***************************************************************************)
(* Arguments of init: a basis description (gsMultiBasis), a global dof     *)
(* mapper, the global vector of boundary values, and the geometry that     *)
(* belongs to the basis (argument of interfaceAveragesAsPrimals).          *)
(* A piece of a component lists the basis functions of the patch that      *)
(* live on it and their moments (integrals against the constant 1).        *)
(***************************************************************************)
Piece(k, fns, moments) == [patch |-> k, fns |-> Arr(fns), moments |-> Arr(moments)]

Component(d, pieces) == [dim |-> d, pieces |-> Arr(pieces)]

\* boundary values: the value of global boundary dof b
FixedValues(n) == [b \in 0..(n - 1) |-> 100 + b]

\* corners of a tensor basis with nx * ny functions, numbered x + nx * y
Corners2D(nx, ny) == Arr(<<0, nx - 1, nx * (ny - 1), nx * ny - 1>>)

Bilinear == <<1, 1, 1, 1>>

\* two unit squares sharing one edge, bilinear bases, nothing eliminated
TwoSquaresGeo ==
    [nPatches |-> 2, parDim |-> 2, components |-> Arr(<<
        Component(2, <<Piece(0, <<0, 1, 2, 3>>, Bilinear)>>),
        Component(2, <<Piece(1, <<0, 1, 2, 3>>, Bilinear)>>),
        Component(1, <<Piece(0, <<1, 3>>, <<1, 1>>), Piece(1, <<0, 2>>, <<1, 1>>)>>),
        Component(1, <<Piece(0, <<0, 2>>, <<1, 1>>)>>),
        Component(1, <<Piece(0, <<0, 1>>, <<1, 1>>)>>),
        Component(1, <<Piece(0, <<2, 3>>, <<1, 1>>)>>),
        Component(1, <<Piece(1, <<1, 3>>, <<1, 1>>)>>),
        Component(1, <<Piece(1, <<0, 1>>, <<1, 1>>)>>),
        Component(1, <<Piece(1, <<2, 3>>, <<1, 1>>)>>),
        Component(0, <<Piece(0, <<1>>, <<1>>), Piece(1, <<0>>, <<1>>)>>),
        Component(0, <<Piece(0, <<3>>, <<1>>), Piece(1, <<2>>, <<1>>)>>)>>)]

TwoSquares ==
    [basis |-> [nBases |-> 2, dim |-> 2, size |-> Arr(<<4, 4>>),
                corner |-> Arr(<<Corners2D(2, 2), Corners2D(2, 2)>>)],
     mapper |-> [componentsSize |-> 1, numPatches |-> 2, patchSize |-> Arr(<<4, 4>>),
                 index |-> Arr(<<Arr(<<0, 4, 1, 5>>), Arr(<<4, 2, 5, 3>>)>>),
                 freeSize |-> 6, coupledSize |-> 2, boundarySize |-> 0],
     fixedPart |-> FixedValues(0),
     geo |-> "TwoSquares"]

\* two squares sharing one edge, 2 x 3 functions each (3 along the shared
\* edge), the outer side of patch 0 eliminated
TwoSquaresDirichletGeo ==
    [nPatches |-> 2, parDim |-> 2, components |-> Arr(<<
        Component(2, <<Piece(0, <<0, 1, 2, 3, 4, 5>>, <<1, 1, 2, 2, 1, 1>>)>>),
        Component(2, <<Piece(1, <<0, 1, 2, 3, 4, 5>>, <<1, 1, 2, 2, 1, 1>>)>>),
        Component(1, <<Piece(0, <<1, 3, 5>>, <<1, 2, 1>>),
                       Piece(1, <<0, 2, 4>>, <<1, 2, 1>>)>>),
        Component(1, <<Piece(0, <<0, 2, 4>>, <<1, 2, 1>>)>>),
        Component(1, <<Piece(0, <<0, 1>>, <<1, 1>>)>>),
        Component(1, <<Piece(1, <<1, 3, 5>>, <<1, 2, 1>>)>>),
        Component(1, <<Piece(1, <<4, 5>>, <<1, 1>>)>>),
        Component(0, <<Piece(0, <<1>>, <<1>>), Piece(1, <<0>>, <<1>>)>>)>>)]

TwoSquaresDirichlet ==
    [basis |-> [nBases |-> 2, dim |-> 2, size |-> Arr(<<6, 6>>),
                corner |-> Arr(<<Corners2D(2, 3), Corners2D(2, 3)>>)],
     mapper |-> [componentsSize |-> 1, numPatches |-> 2, patchSize |-> Arr(<<6, 6>>),
                 index |-> Arr(<<Arr(<<6, 3, 7, 4, 8, 5>>), Arr(<<3, 0, 4, 1, 5, 2>>)>>),
                 freeSize |-> 6, coupledSize |-> 3, boundarySize |-> 3],
     fixedPart |-> FixedValues(3),
     geo |-> "TwoSquaresDirichlet"]

\* three unit squares in an L: patch 1 right of patch 0, patch 2 above
\* patch 0; the inner vertex belongs to all three
LShapeGeo ==
    [nPatches |-> 3, parDim |-> 2, components |-> Arr(<<
        Component(2, <<Piece(0, <<0, 1, 2, 3>>, Bilinear)>>),
        Component(2, <<Piece(1, <<0, 1, 2, 3>>, Bilinear)>>),
        Component(2, <<Piece(2, <<0, 1, 2, 3>>, Bilinear)>>),
        Component(1, <<Piece(0, <<1, 3>>, <<1, 1>>), Piece(1, <<0, 2>>, <<1, 1>>)>>),
        Component(1, <<Piece(0, <<2, 3>>, <<1, 1>>), Piece(2, <<0, 1>>, <<1, 1>>)>>),
        Component(1, <<Piece(1, <<2, 3>>, <<1, 1>>)>>),
        Component(1, <<Piece(2, <<1, 3>>, <<1, 1>>)>>),
        Component(0, <<Piece(0, <<3>>, <<1>>), Piece(1, <<2>>, <<1>>),
                       Piece(2, <<1>>, <<1>>)>>)>>)]

LShape ==
    [basis |-> [nBases |-> 3, dim |-> 2, size |-> Arr(<<4, 4, 4>>),
                corner |-> Arr(<<Corners2D(2, 2), Corners2D(2, 2), Corners2D(2, 2)>>)],
     mapper |-> [componentsSize |-> 1, numPatches |-> 3, patchSize |-> Arr(<<4, 4, 4>>),
                 index |-> Arr(<<Arr(<<0, 5, 6, 7>>), Arr(<<5, 1, 7, 2>>),
                                 Arr(<<6, 7, 3, 4>>)>>),
                 freeSize |-> 8, coupledSize |-> 3, boundarySize |-> 0],
     fixedPart |-> FixedValues(0),
     geo |-> "LShape"]

\* one periodic interval with 3 functions, the first matched with the last
PeriodicGeo ==
    [nPatches |-> 1, parDim |-> 1, components |-> Arr(<<
        Component(1, <<Piece(0, <<0, 1, 2>>, <<1, 2, 1>>)>>),
        Component(0, <<Piece(0, <<0>>, <<1>>), Piece(0, <<2>>, <<1>>)>>)>>)]

Periodic ==
    [basis |-> [nBases |-> 1, dim |-> 1, size |-> Arr(<<3>>),
                corner |-> Arr(<<Arr(<<0, 2>>)>>)],
     mapper |-> [componentsSize |-> 1, numPatches |-> 1, patchSize |-> Arr(<<3>>),
                 index |-> Arr(<<Arr(<<1, 0, 1>>)>>),
                 freeSize |-> 2, coupledSize |-> 1, boundarySize |-> 0],
     fixedPart |-> FixedValues(0),
     geo |-> "Periodic"]

\* a chain of n intervals with 3 functions each, consecutive intervals
\* share their end function, the two outer ends are eliminated
ChainGeo(n) ==
    [nPatches |-> n, parDim |-> 1,
     components |-> [c \in 0..(2 * n - 2) |->
         IF c < n
         THEN Component(1, <<Piece(c, <<0, 1, 2>>, <<1, 2, 1>>)>>)
         ELSE Component(0, <<Piece(c - n, <<2>>, <<1>>),
                             Piece(c - n + 1, <<0>>, <<1>>)>>)]]

Chain(n) ==
    [basis |-> [nBases |-> n, dim |-> 1, size |-> [k \in 0..(n - 1) |-> 3],
                corner |-> [k \in 0..(n - 1) |-> Arr(<<0, 2>>)]],
     mapper |-> [componentsSize |-> 1, numPatches |-> n,
                 patchSize |-> [k \in 0..(n - 1) |-> 3],
                 index |-> [k \in 0..(n - 1) |->
                              Arr(<<IF k = 0 THEN 2 * n - 1 ELSE n + k - 1,
                                    k,
                                    IF k = n - 1 THEN 2 * n ELSE n + k>>)],
                 freeSize |-> 2 * n - 1, coupledSize |-> n - 1, boundarySize |-> 2],
     fixedPart |-> FixedValues(2),
     geo |-> "Chain"]

\* two intervals with 3 functions each that share no function; patch 0
\* declares one artificial dof that mirrors the neighbour's end function,
\* patch 1 declares artificial copies of both free functions of patch 0
Artificial ==
    [basis |-> [nBases |-> 2, dim |-> 1, size |-> Arr(<<3, 3>>),
                corner |-> Arr(<<Arr(<<0, 2>>), Arr(<<0, 2>>)>>)],
     mapper |-> [componentsSize |-> 1, numPatches |-> 2, patchSize |-> Arr(<<4, 5>>),
                 index |-> Arr(<<Arr(<<4, 1, 2, 3>>), Arr(<<3, 0, 5, 1, 2>>)>>),
                 freeSize |-> 4, coupledSize |-> 3, boundarySize |-> 2],
     fixedPart |-> FixedValues(2),
     geo |-> "Chain"]

\* two intervals with 3 functions each that share their end function (global
\* dof 2); every patch declares a 4th, artificial dof that mirrors the inner
\* function of the neighbour
SharedArtificial ==
    [basis |-> [nBases |-> 2, dim |-> 1, size |-> Arr(<<3, 3>>),
                corner |-> Arr(<<Arr(<<0, 2>>), Arr(<<0, 2>>)>>)],
     mapper |-> [componentsSize |-> 1, numPatches |-> 2, patchSize |-> Arr(<<4, 4>>),
                 index |-> Arr(<<Arr(<<3, 0, 2, 1>>), Arr(<<2, 1, 4, 0>>)>>),
                 freeSize |-> 3, coupledSize |-> 3, boundarySize |-> 2],
     fixedPart |-> FixedValues(2),
     geo |-> "Chain"]

\* three intervals with 3 functions each; patches 1 and 2 share an end
\* function (global dof 3), patch 2 declares an artificial dof that mirrors
\* the inner function of patch 1
SharedArtificialLater ==
    [basis |-> [nBases |-> 3, dim |-> 1, size |-> Arr(<<3, 3, 3>>),
                corner |-> Arr(<<Arr(<<0, 2>>), Arr(<<0, 2>>), Arr(<<0, 2>>)>>)],
     mapper |-> [componentsSize |-> 1, numPatches |-> 3, patchSize |-> Arr(<<3, 3, 4>>),
                 index |-> Arr(<<Arr(<<4, 0, 5>>), Arr(<<6, 2, 3>>), Arr(<<3, 1, 7, 2>>)>>),
                 freeSize |-> 4, coupledSize |-> 2, boundarySize |-> 4],
     fixedPart |-> FixedValues(4),
     geo |-> "Chain"]

\* TwoSquaresDirichlet with one more dof marked as coupled: the global dof
\* 2 of an inner function of patch 1, which occurs nowhere else
LoneCoupled ==
    [TwoSquaresDirichlet EXCEPT !.mapper = [TwoSquaresDirichlet.mapper EXCEPT
        !.index = Arr(<<Arr(<<6, 3, 7, 4, 8, 5>>), Arr(<<3, 0, 4, 2, 5, 1>>)>>),
        !.coupledSize = 4]]

\* TwoSquares with a mapper of two components
TwoComponents ==
    [TwoSquares EXCEPT !.mapper = [TwoSquares.mapper EXCEPT !.componentsSize = 2]]

\* the basis of LShape with the mapper of TwoSquares
PatchCountMismatch == [LShape EXCEPT !.mapper = TwoSquares.mapper]

\* TwoSquaresDirichlet with the mapper of TwoSquares: 4 declared dofs on
\* patches whose bases have 6 functions
TooFewDofs == [TwoSquaresDirichlet EXCEPT !.mapper = TwoSquares.mapper]

\* Artificial whose second patch declares fewer dofs than its basis has
TooFewDofsLater ==
    [Artificial EXCEPT !.mapper = [Artificial.mapper EXCEPT
        !.patchSize = Arr(<<4, 2>>),
        !.index = Arr(<<Arr(<<4, 0, 2, 3>>), Arr(<<3, 1>>)>>)]]

\* the names of the arguments a caller may pass to init
InputIds ==
    {[kind |-> x, n |-> 0] : x \in {"TwoSquares", "TwoSquaresDirichlet", "LShape",
        "Periodic", "Artificial", "TwoComponents", "PatchCountMismatch",
        "TooFewDofs", "TooFewDofsLater", "LoneCoupled", "SharedArtificial",
        "SharedArtificialLater"}}
    \cup {[kind |-> "Chain", n |-> n] : n \in 2..MaxChain}

Input(id) ==
    CASE id.kind = "TwoSquares" -> TwoSquares
      [] id.kind = "TwoSquaresDirichlet" -> TwoSquaresDirichlet
      [] id.kind = "LShape" -> LShape
      [] id.kind = "Periodic" -> Periodic
      [] id.kind = "Artificial" -> Artificial
      [] id.kind = "TwoComponents" -> TwoComponents
      [] id.kind = "PatchCountMismatch" -> PatchCountMismatch
      [] id.kind = "TooFewDofs" -> TooFewDofs
      [] id.kind = "TooFewDofsLater" -> TooFewDofsLater
      [] id.kind = "LoneCoupled" -> LoneCoupled
      [] id.kind = "SharedArtificial" -> SharedArtificial
      [] id.kind = "SharedArtificialLater" -> SharedArtificialLater
      [] id.kind = "Chain" -> Chain(id.n)

\* the geometry a basis description belongs to
Geometry(name, mb) ==
    CASE name = "TwoSquares" -> TwoSquaresGeo
      [] name = "TwoSquaresDirichlet" -> TwoSquaresDirichletGeo
      [] name = "LShape" -> LShapeGeo
      [] name = "Periodic" -> PeriodicGeo
      [] name = "Chain" -> ChainGeo(mb.nBases)
      \* a geometry with one patch more than the bases
      [] name = "Foreign" -> [nPatches |-> mb.nBases + 1, parDim |-> mb.dim,
                              components |-> Empty]

(***************************************************************************)
(* The last call: call.err is "ok" or the error thrown, call.assigned      *)
(* tells whether the call assigned any member of the mapper.               *)
(***************************************************************************)
Call(op, args, err) ==
    [op |-> op, args |-> args, err |-> err, assigned |-> TRUE, result |-> <<>>]

\* a const member function that returns result
Return(op, args, result) ==
    /\ call' = [op |-> op, args |-> args, err |-> "ok", assigned |-> FALSE,
                result |-> result]
    /\ UNCHANGED <<state, customCalls>>

\* a GISMO_ASSERT that fails before the call has assigned anything
Throw(op, args, err) ==
    /\ call' = [op |-> op, args |-> args, err |-> err, assigned |-> FALSE,
                result |-> <<>>]
    /\ UNCHANGED <<state, customCalls>>

\* A call that assigned nothing leaves the mapper as it was before the call:
\* what can follow it is what can follow the state before it, so a behaviour
\* is not continued beyond such a call.
Live == call.assigned

\* An init that threw after it had begun to assign the members leaves a
\* mapper that only a new init repairs: no other member function is called.
Usable == ~(call.op = "init" /\ call.err # "ok")

IsInitialized(status) == HasFlag(status, 1)

HasArtificialDofs(status) == HasFlag(status, 2)

(***************************************************************************)
(* After construction                                                      *)
(***************************************************************************)
Init ==
    /\ m_status = 0
    /\ m_multiBasis = [nBases |-> 0, dim |-> 0, size |-> Empty, corner |-> Empty]
    /\ m_dofMapperGlobal = DefaultDofMapper
    /\ m_dofMapperLocal = Empty
    /\ m_fixedPart = Empty
    /\ m_jumpMatrices = Empty
    /\ m_nPrimalDofs = 0
    /\ m_primalConstraints = Empty
    /\ m_primalDofIndices = Empty
    /\ m_artificialDofInfo = Empty
    /\ customCalls = 0
    /\ call = Call("gsIetiMapper", <<>>, "ok")

(***************************************************************************)
(* init                                                                    *)
(***************************************************************************)
\* std::vector::resize: the first n elements are kept, new ones are def
Resize(a, n, def) == [k \in 0..(n - 1) |-> IF k \in DOMAIN a THEN a[k] ELSE def]

\* resize without the clear before it: the elements of an earlier init stay
ResizeOnly(a, n) == Resize(a, n, Empty)

\* a.clear(); a.resize(n): n empty elements
ClearResize(a, n) == [k \in 0..(n - 1) |-> Empty]

\* the local mapper of patch k without the elimination of the boundary dofs
InitLocalMapperNoElimination(dm, k) == LocalMapper(dm.patchSize[k], {})

\* the local mapper of patch k: every dof with a boundary image eliminated
InitLocalMapper(dm, k) ==
    LocalMapper(dm.patchSize[k],
                {i \in 0..(dm.patchSize[k] - 1) : IsBoundaryIndex(dm, GIndex(dm, i, k))})

\* the local vector of boundary values of patch k
InitFixedPart(dm, lm, k, fixedPart) ==
    [b \in 0..(lm.boundarySize - 1) |->
        LET i == CHOOSE i \in 0..(dm.patchSize[k] - 1) : lm.index[i] - lm.freeSize = b
        IN fixedPart[BIndex(dm, i, k)]]

\* the first patch whose mapper has fewer dofs than its basis, else nPatches
FirstTooSmall(mb, dm) ==
    LET bad == {k \in 0..(dm.numPatches - 1) : dm.patchSize[k] < mb.size[k]}
    IN IF bad = {} THEN dm.numPatches ELSE CHOOSE k \in bad : \A j \in bad : k <= j

\* m_status after the loop over the patches has visited patches 0..k0-1
InitStatus(mb, dm, k0) ==
    IF \E k \in 0..(k0 - 1) : dm.patchSize[k] > mb.size[k] THEN 3 ELSE 1

\* first pass of the artificial-dof set-up: (patch, local index + 1) of the
\* true basis function that owns each free global dof
RECURSIVE OwnerPass(_, _, _, _, _)
OwnerPass(dm, loc, slots, j, dofs) ==
    IF j > Len(slots) THEN [ok |-> TRUE, dofs |-> dofs]
    ELSE LET k == slots[j].patch
             i == slots[j].idx
             globalIndex == GIndex(dm, i, k)
         IN IF IsFreeIndex(dm, globalIndex)
            THEN IF dofs[globalIndex].patch # 0
                 THEN [ok |-> FALSE, dofs |-> dofs]
                 ELSE OwnerPass(dm, loc, slots, j + 1,
                        [dofs EXCEPT ![globalIndex] =
                            [patch |-> k, local |-> loc[k].index[i] + 1]])
            ELSE OwnerPass(dm, loc, slots, j + 1, dofs)

\* second pass: for every artificial dof, its local index + 1 is entered in
\* the table of the owner patch, under the key of the holding patch
RECURSIVE ArtificialPass(_, _, _, _, _, _)
ArtificialPass(dm, loc, dofs, slots, j, info) ==
    IF j > Len(slots) THEN [ok |-> TRUE, info |-> info]
    ELSE LET k == slots[j].patch
             i == slots[j].idx
             globalIndex == GIndex(dm, i, k)
         IN IF IsFreeIndex(dm, globalIndex)
            THEN LET otherPatch == dofs[globalIndex].patch
                     indexOnOtherPatch == dofs[globalIndex].local - 1
                     old == IF k \in DOMAIN info[otherPatch]
                            THEN info[otherPatch][k] ELSE Empty
                     which == IF Size(old) = 0
                              THEN [c \in 0..(loc[otherPatch].freeSize - 1) |-> 0]
                              ELSE old
                     entered(w) == [info EXCEPT ![otherPatch] =
                                     [key \in DOMAIN info[otherPatch] \cup {k} |->
                                        IF key = k THEN w ELSE info[otherPatch][key]]]
                 IN IF indexOnOtherPatch < 0
                    THEN [ok |-> FALSE, info |-> info]
                    ELSE IF indexOnOtherPatch \notin DOMAIN which
                    THEN [ok |-> FALSE, info |-> entered(which)]
                    ELSE ArtificialPass(dm, loc, dofs, slots, j + 1,
                            entered([which EXCEPT ![indexOnOtherPatch] = i + 1]))
            ELSE ArtificialPass(dm, loc, dofs, slots, j + 1, info)

\* only the number of patches is compared
InitArgsRejectedOnlyPatchCount(mb, dm) == dm.numPatches # mb.nBases

\* the two assertions on the arguments of init
InitArgsRejected(mb, dm) == dm.componentsSize # 1 \/ dm.numPatches # mb.nBases

\* the run of init up to the artificial-dof table
InitRun(in) ==
    LET mb == in.basis
        dm == in.mapper
        nPatches == dm.numPatches
        k0 == FirstTooSmall(mb, dm)
        loc == [k \in 0..(nPatches - 1) |-> InitLocalMapper(dm, k)]
        owners == OwnerPass(dm, loc, Slots(mb.size), 1,
                            [g \in 0..(dm.freeSize - 1) |-> [patch |-> 0, local |-> 0]])
    IN IF InitArgsRejected(mb, dm)
       THEN [err |-> "ConfigurationError", assigned |-> FALSE]
       ELSE [err |-> IF k0 < nPatches THEN "ConfigurationError"
                     ELSE IF ~HasArtificialDofs(InitStatus(mb, dm, k0)) THEN "ok"
                     ELSE IF ~owners.ok THEN "InternalInvariantViolation"
                     ELSE "artificial",
             assigned |-> TRUE,
             status |-> InitStatus(mb, dm, k0),
             local |-> [k \in 0..(nPatches - 1) |->
                          IF k < k0 THEN loc[k] ELSE DefaultLocalMapper],
             fixed |-> [k \in 0..(nPatches - 1) |->
                          IF k < k0 THEN InitFixedPart(dm, loc[k], k, in.fixedPart)
                          ELSE Empty],
             owners |-> IF k0 = nPatches /\ HasArtificialDofs(InitStatus(mb, dm, k0))
                        THEN owners.dofs ELSE Empty,
             artificialSlots |-> SelectSeq(Slots(dm.patchSize),
                                           LAMBDA s : s.idx >= mb.size[s.patch])]

InitTable == [id \in InputIds |-> InitRun(Input(id))]

initWith(id) ==
    LET in == Input(id)
        dm == in.mapper
        run == InitTable[id]
        table == ArtificialPass(dm, run.local, run.owners, run.artificialSlots, 1,
                                Resize(m_artificialDofInfo, dm.numPatches, Empty))
    IN IF ~run.assigned
       THEN Throw("init", id, run.err)
       ELSE /\ m_multiBasis' = in.basis
            /\ m_dofMapperGlobal' = dm
            /\ m_dofMapperLocal' = run.local
            /\ m_fixedPart' = run.fixed
            /\ m_jumpMatrices' = Empty
            /\ m_nPrimalDofs' = 0
            /\ m_primalConstraints' = ClearResize(m_primalConstraints, dm.numPatches)
            /\ m_primalDofIndices' = ClearResize(m_primalDofIndices, dm.numPatches)
            /\ m_status' = run.status
            /\ customCalls' = 0
            /\ IF run.err = "artificial"
               THEN /\ m_artificialDofInfo' = table.info
                    /\ call' = Call("init", id,
                                    IF table.ok THEN "ok" ELSE "InternalInvariantViolation")
               ELSE /\ UNCHANGED m_artificialDofInfo
                    /\ call' = Call("init", id, run.err)

init == Live /\ \E id \in InputIds : initWith(id)

(***************************************************************************)
(* Sparse vectors (gsSparseVector<T>): the size and the stored entries.    *)
(* Values of type T are fractions num/den.                                 *)
(***************************************************************************)
Frac(n, d) == [num |-> n, den |-> d]

SparseVector(n, entries) == [size |-> n, nz |-> entries]

UnitVector(n, c) == SparseVector(n, [x \in {c} |-> Frac(1, 1)])

NonZeros(v) == Cardinality(DOMAIN v.nz)

RECURSIVE Concat(_)
Concat(ss) == IF ss = <<>> THEN <<>> ELSE Head(ss) \o Concat(Tail(ss))

(***************************************************************************)
(* cornersAsPrimals                                                        *)
(***************************************************************************)
\* the corner functions, patch by patch, corner by corner
CornerSlots(mb, nPatches) ==
    Concat([k \in 1..nPatches |->
        [c \in 1..Size(mb.corner[k - 1]) |->
            [patch |-> k - 1, idx |-> mb.corner[k - 1][c - 1]]]])

DofHelper(g, k, l) == [globalIndex |-> g, patch |-> k, localIndex |-> l]

\* the comparison of dof_helpers by patch in place of the global index
DofHelperLessByPatch(a, b) == a.patch < b.patch

DofHelperLess(a, b) == a.globalIndex < b.globalIndex

\* std::sort of dof_helpers; on a short range it is an insertion sort, so
\* equal elements keep their order
RECURSIVE InsertCorner(_, _)
InsertCorner(sorted, x) ==
    IF sorted = <<>> THEN <<x>>
    ELSE IF DofHelperLess(x, sorted[Len(sorted)])
         THEN InsertCorner(SubSeq(sorted, 1, Len(sorted) - 1), x)
                \o <<sorted[Len(sorted)]>>
         ELSE Append(sorted, x)

RECURSIVE SortCornersPrefix(_, _)
SortCornersPrefix(s, n) ==
    IF n = 0 THEN <<>> ELSE InsertCorner(SortCornersPrefix(s, n - 1), s[n])

SortCorners(s) == SortCornersPrefix(s, Len(s))

\* the dof_helpers of a corner without the test that its global dof is free
CornerHelpersAlsoEliminated(dm, loc, status, k, idx) ==
    LET globalIndex == GIndex(dm, idx, k)
        preImages == PreImage(dm, globalIndex)
    IN IF HasArtificialDofs(status)
       THEN [n \in 1..Len(preImages) |->
                DofHelper(globalIndex, preImages[n].patch,
                          loc[preImages[n].patch].index[preImages[n].idx])]
       ELSE <<DofHelper(globalIndex, k, loc[k].index[idx])>>

\* the dof_helpers one corner function contributes
CornerHelpers(dm, loc, status, k, idx) ==
    LET globalIndex == GIndex(dm, idx, k)
        preImages == PreImage(dm, globalIndex)
    IN IF ~IsFreeIndex(dm, globalIndex) THEN <<>>
       ELSE IF HasArtificialDofs(status)
       THEN [n \in 1..Len(preImages) |->
                DofHelper(globalIndex, preImages[n].patch,
                          loc[preImages[n].patch].index[preImages[n].idx])]
       ELSE <<DofHelper(globalIndex, k, loc[k].index[idx])>>

\* "Construct all corners" and the sort
SortedCorners(mb, dm, loc, status) ==
    LET slots == CornerSlots(mb, Size(loc))
    IN SortCorners(Concat([n \in 1..Len(slots) |->
                      CornerHelpers(dm, loc, status, slots[n].patch, slots[n].idx)]))

\* "Create data": acc holds lastIndex, nPrimalDofs and the two per-patch lists
RECURSIVE CreateCornerData(_, _, _, _)
CreateCornerData(corners, loc, i, acc) ==
    IF i > Len(corners) THEN acc
    ELSE LET new == acc.lastIndex # corners[i].globalIndex
             nPrimalDofs == IF new THEN acc.nPrimalDofs + 1 ELSE acc.nPrimalDofs
             cornerIndex == nPrimalDofs - 1
             patch == corners[i].patch
             constr == UnitVector(loc[patch].freeSize, corners[i].localIndex)
         IN CreateCornerData(corners, loc, i + 1,
              [lastIndex |-> corners[i].globalIndex,
               nPrimalDofs |-> nPrimalDofs,
               constraints |-> [acc.constraints EXCEPT
                                  ![patch] = PushBack(@, constr)],
               indices |-> [acc.indices EXCEPT ![patch] = PushBack(@, cornerIndex)]])

\* the corners counted by a counter that starts at 0
CornerStartFromZero ==
    [lastIndex |-> -1, nPrimalDofs |-> 0,
     constraints |-> m_primalConstraints, indices |-> m_primalDofIndices]

\* what the "create data" loop starts from: no last index, the members
CornerStart ==
    [lastIndex |-> -1, nPrimalDofs |-> m_nPrimalDofs,
     constraints |-> m_primalConstraints, indices |-> m_primalDofIndices]

\* the body of cornersAsPrimals after its two checks
cornersAsPrimalsRun ==
    LET corners == SortedCorners(m_multiBasis, m_dofMapperGlobal,
                                 m_dofMapperLocal, m_status)
        data == CreateCornerData(corners, m_dofMapperLocal, 1, CornerStart)
    IN /\ m_status' = SetFlag(m_status, 8)
       /\ m_nPrimalDofs' = data.nPrimalDofs
       /\ m_primalConstraints' = data.constraints
       /\ m_primalDofIndices' = data.indices
       /\ call' = Call("cornersAsPrimals", <<>>, "ok")
       /\ UNCHANGED <<m_multiBasis, m_dofMapperGlobal, m_dofMapperLocal,
                      m_fixedPart, m_jumpMatrices, m_artificialDofInfo,
                      customCalls>>

\* cornersAsPrimals without the check that the class has been initialized
cornersAsPrimalsNoInitCheck ==
    /\ Live /\ Usable
    /\ IF HasFlag(m_status, 8)
       THEN Throw("cornersAsPrimals", <<>>, "SequencingError")
       ELSE cornersAsPrimalsRun

cornersAsPrimals ==
    /\ Live /\ Usable
    /\ IF ~IsInitialized(m_status)
       THEN Throw("cornersAsPrimals", <<>>, "SequencingError")
       ELSE IF HasFlag(m_status, 8)
       THEN Throw("cornersAsPrimals", <<>>, "SequencingError")
       ELSE cornersAsPrimalsRun

(***************************************************************************)
(* customPrimalConstraints                                                 *)
(***************************************************************************)
\* "data": lists of (patch, row) pairs a caller may pass
CustomData(loc) ==
    LET patches == {k \in DOMAIN loc : loc[k].freeSize > 0}
        first == CHOOSE k \in patches : \A j \in patches : k <= j
        last == CHOOSE k \in patches : \A j \in patches : k >= j
        pair(k, c) == [patch |-> k, row |-> UnitVector(loc[k].freeSize, c)]
    IN IF patches = {} THEN {Empty}
       ELSE {Arr(<<pair(first, 0), pair(last, loc[last].freeSize - 1), pair(first, 0)>>)}

\* registers a pair only the first time it occurs in data
RECURSIVE PushCustomOnce(_, _, _, _)
PushCustomOnce(data, i, nPrimalDofs, acc) ==
    IF i >= Size(data) THEN acc
    ELSE PushCustomOnce(data, i + 1, nPrimalDofs,
            IF \E j \in 0..(i - 1) : data[j] = data[i] THEN acc
            ELSE [constraints |-> [acc.constraints EXCEPT
                                     ![data[i].patch] = PushBack(@, data[i].row)],
                  indices |-> [acc.indices EXCEPT
                                     ![data[i].patch] = PushBack(@, nPrimalDofs)]])

\* registers the rows without their primal ids
RECURSIVE PushCustomRowsOnly(_, _, _, _)
PushCustomRowsOnly(data, i, nPrimalDofs, acc) ==
    IF i >= Size(data) THEN acc
    ELSE PushCustomRowsOnly(data, i + 1, nPrimalDofs,
            [constraints |-> [acc.constraints EXCEPT
                                ![data[i].patch] = PushBack(@, data[i].row)],
             indices |-> acc.indices])

RECURSIVE PushCustom(_, _, _, _)
PushCustom(data, i, nPrimalDofs, acc) ==
    IF i >= Size(data) THEN acc
    ELSE PushCustom(data, i + 1, nPrimalDofs,
            [constraints |-> [acc.constraints EXCEPT
                                ![data[i].patch] = PushBack(@, data[i].row)],
             indices |-> [acc.indices EXCEPT
                                ![data[i].patch] = PushBack(@, nPrimalDofs)]])

customPrimalConstraints ==
    /\ Live /\ Usable
    /\ \E data \in CustomData(m_dofMapperLocal) :
         IF ~IsInitialized(m_status)
         THEN Throw("customPrimalConstraints", data, "SequencingError")
         ELSE LET pushed == PushCustom(data, 0, m_nPrimalDofs,
                                [constraints |-> m_primalConstraints,
                                 indices |-> m_primalDofIndices])
              IN /\ customCalls < MaxCustomCalls
                 /\ m_primalConstraints' = pushed.constraints
                 /\ m_primalDofIndices' = pushed.indices
                 /\ m_nPrimalDofs' = m_nPrimalDofs + 1
                 /\ customCalls' = customCalls + 1
                 /\ call' = Call("customPrimalConstraints", data, "ok")
                 /\ UNCHANGED <<m_status, m_multiBasis, m_dofMapperGlobal,
                                m_dofMapperLocal, m_fixedPart, m_jumpMatrices,
                                m_artificialDofInfo>>

(***************************************************************************)
(* computeJumpMatrices                                                     *)
(***************************************************************************)
\* "Find the groups of to be coupled indices in the global mapper"
Coupling(dm, loc) ==
    LET slots == Slots(dm.patchSize)
    IN [c \in 0..(dm.coupledSize - 1) |->
          LET group == SelectSeq(slots, LAMBDA s :
                          /\ IsCoupledIndex(dm, GIndex(dm, s.idx, s.patch))
                          /\ CIndex(dm, s.idx, s.patch) = c)
          IN [n \in 1..Len(group) |->
                [patch |-> group[n].patch,
                 localIndex |-> loc[group[n].patch].index[group[n].idx]]]]

\* no coupled index counts as one of a corner function
CornerCoupledIndicesNone(mb, dm) == {}

\* the coupled indices of the corner functions
CornerCoupledIndices(mb, dm) ==
    LET slots == CornerSlots(mb, dm.numPatches)
    IN {CIndex(dm, slots[n].idx, slots[n].patch) :
          n \in {m \in 1..Len(slots) : IsCoupled(dm, slots[m].idx, slots[m].patch)}}

\* "Erease data for corners if so desired"
PurgedCoupling(mb, dm, loc, excludeCorners) ==
    LET coupling == Coupling(dm, loc)
    IN IF excludeCorners
       THEN [c \in DOMAIN coupling |->
               IF c \in CornerCoupledIndices(mb, dm) THEN <<>> ELSE coupling[c]]
       ELSE coupling

\* the number of Lagrange multipliers counted for a group of n occurrences
GroupMultipliers(n, fullyRedundant) ==
    IF fullyRedundant THEN (n * (n - 1)) \div 2 ELSE n - 1

NumLagrangeMult(coupling, fullyRedundant) ==
    SumTo([c \in DOMAIN coupling |-> GroupMultipliers(Len(coupling[c]), fullyRedundant)],
          Size(coupling))

\* the outer loop bound of the minimal mode used in both modes
MaxIndexAlwaysOne(n, fullyRedundant) == 1

\* the bound of the outer loop over the first occurrence j1
MaxIndex(n, fullyRedundant) == IF fullyRedundant THEN n - 1 ELSE 1

\* minimal mode pairs each occurrence with the next one
GroupPairsChained(n, fullyRedundant) ==
    IF fullyRedundant
    THEN Concat([a \in 1..(n - 1) |->
                   [t \in 1..(n - a) |-> [j1 |-> a - 1, j2 |-> a - 1 + t]]])
    ELSE [t \in 1..(n - 1) |-> [j1 |-> t - 1, j2 |-> t]]

\* the pairs (j1, j2) the two inner loops visit, in order
GroupPairs(n, fullyRedundant) ==
    LET maxIndex == MaxIndex(n, fullyRedundant)
    IN Concat([a \in 1..maxIndex |->
                 [t \in 1..(n - a) |-> [j1 |-> a - 1, j2 |-> a - 1 + t]]])

\* both entries of a row written with the value 1
RowEntriesSameSign(multiplier, first, second) ==
    <<[patch |-> first.patch, row |-> multiplier, col |-> first.localIndex, value |-> 1],
      [patch |-> second.patch, row |-> multiplier, col |-> second.localIndex, value |-> 1]>>

\* the two entries of one multiplier row
RowEntries(multiplier, first, second) ==
    <<[patch |-> first.patch, row |-> multiplier, col |-> first.localIndex, value |-> 1],
      [patch |-> second.patch, row |-> multiplier, col |-> second.localIndex, value |-> -1]>>

\* the entries added to jumpMatrices_se, group after group
RECURSIVE JumpEntries(_, _, _, _)
JumpEntries(coupling, fullyRedundant, c, multiplier) ==
    IF c >= Size(coupling) THEN [entries |-> <<>>, multiplier |-> multiplier]
    ELSE LET pairs == GroupPairs(Len(coupling[c]), fullyRedundant)
             here == Concat([n \in 1..Len(pairs) |->
                        RowEntries(multiplier + n - 1,
                                   coupling[c][pairs[n].j1 + 1],
                                   coupling[c][pairs[n].j2 + 1])])
             rest == JumpEntries(coupling, fullyRedundant, c + 1, multiplier + Len(pairs))
         IN [entries |-> here \o rest.entries, multiplier |-> rest.multiplier]

RECURSIVE SumValues(_)
SumValues(es) == IF es = <<>> THEN 0 ELSE Head(es).value + SumValues(Tail(es))

\* JumpMatrix(rows, cols) and setFrom: entries at the same place are summed
JumpMatrix(rows, cols, entries) ==
    [rows |-> rows, cols |-> cols,
     val |-> [rc \in {<<entries[n].row, entries[n].col>> : n \in 1..Len(entries)} |->
                SumValues(SelectSeq(entries, LAMBDA e : <<e.row, e.col>> = rc))]]

\* the run of computeJumpMatrices after its two sequencing checks
JumpResult(mb, dm, loc, fullyRedundant, excludeCorners) ==
    LET coupling == PurgedCoupling(mb, dm, loc, excludeCorners)
        numLagrangeMult == NumLagrangeMult(coupling, fullyRedundant)
        built == JumpEntries(coupling, fullyRedundant, 0, 0)
    IN IF \E c \in DOMAIN coupling : ~(Len(coupling[c]) > 1 \/ excludeCorners)
       THEN [err |-> "InternalInvariantViolation", jumpMatrices |-> Empty]
       ELSE IF built.multiplier # numLagrangeMult
       THEN [err |-> "InternalInvariantViolation", jumpMatrices |-> Empty]
       ELSE [err |-> "ok",
             jumpMatrices |-> [k \in 0..(dm.numPatches - 1) |->
                JumpMatrix(numLagrangeMult, loc[k].freeSize,
                           SelectSeq(built.entries, LAMBDA e : e.patch = k))]]

\* the body of computeJumpMatrices with the primal data cleared as well
computeJumpMatricesRunClearPrimals(fullyRedundant, excludeCorners) ==
    LET args == [fullyRedundant |-> fullyRedundant, excludeCorners |-> excludeCorners]
        result == JumpResult(m_multiBasis, m_dofMapperGlobal, m_dofMapperLocal,
                             fullyRedundant, excludeCorners)
    IN /\ m_status' = SetFlag(m_status, 4)
       /\ m_jumpMatrices' = IF result.err = "ok" THEN result.jumpMatrices
                            ELSE m_jumpMatrices
       /\ m_nPrimalDofs' = 0
       /\ m_primalConstraints' = ClearResize(m_primalConstraints, Size(m_primalConstraints))
       /\ m_primalDofIndices' = ClearResize(m_primalDofIndices, Size(m_primalDofIndices))
       /\ call' = Call("computeJumpMatrices", args, result.err)
       /\ UNCHANGED <<m_multiBasis, m_dofMapperGlobal, m_dofMapperLocal,
                      m_fixedPart, m_artificialDofInfo, customCalls>>

\* the body of computeJumpMatrices after its two checks
computeJumpMatricesRun(fullyRedundant, excludeCorners) ==
    LET args == [fullyRedundant |-> fullyRedundant, excludeCorners |-> excludeCorners]
        result == JumpResult(m_multiBasis, m_dofMapperGlobal, m_dofMapperLocal,
                             fullyRedundant, excludeCorners)
    IN /\ m_status' = SetFlag(m_status, 4)
       /\ m_jumpMatrices' = IF result.err = "ok" THEN result.jumpMatrices
                            ELSE m_jumpMatrices
       /\ call' = Call("computeJumpMatrices", args, result.err)
       /\ UNCHANGED <<m_multiBasis, m_dofMapperGlobal, m_dofMapperLocal,
                      m_fixedPart, m_nPrimalDofs, m_primalConstraints,
                      m_primalDofIndices, m_artificialDofInfo, customCalls>>

\* computeJumpMatrices with m_jumpMatrices.clear() moved before the checks
computeJumpMatricesClearFirst ==
    /\ Live /\ Usable
    /\ \E fullyRedundant \in BOOLEAN, excludeCorners \in BOOLEAN :
         IF ~IsInitialized(m_status) \/ HasFlag(m_status, 4)
         THEN /\ m_jumpMatrices' = Empty
              /\ call' = [Call("computeJumpMatrices",
                               [fullyRedundant |-> fullyRedundant,
                                excludeCorners |-> excludeCorners],
                               "SequencingError") EXCEPT !.assigned = FALSE]
              /\ UNCHANGED <<m_status, m_multiBasis, m_dofMapperGlobal,
                             m_dofMapperLocal, m_fixedPart, m_nPrimalDofs,
                             m_primalConstraints, m_primalDofIndices,
                             m_artificialDofInfo, customCalls>>
         ELSE computeJumpMatricesRun(fullyRedundant, excludeCorners)

computeJumpMatrices ==
    /\ Live /\ Usable
    /\ \E fullyRedundant \in BOOLEAN, excludeCorners \in BOOLEAN :
         LET args == [fullyRedundant |-> fullyRedundant, excludeCorners |-> excludeCorners]
         IN IF ~IsInitialized(m_status)
            THEN Throw("computeJumpMatrices", args, "SequencingError")
            ELSE IF HasFlag(m_status, 4)
            THEN Throw("computeJumpMatrices", args, "SequencingError")
            ELSE computeJumpMatricesRun(fullyRedundant, excludeCorners)

(***************************************************************************)
(* interfaceAveragesAsPrimals                                              *)
(***************************************************************************)
\* assembleAverage: the moments of the functions with a free local index,
\* divided by their sum
AssembleAverage(lm, piece) ==
    LET free == {t \in DOMAIN piece.fns : lm.index[piece.fns[t]] < lm.freeSize}
        sum == SumTo([n \in 0..(Size(piece.fns) - 1) |->
                        IF n \in free THEN piece.moments[n] ELSE 0], Size(piece.fns))
    IN SparseVector(lm.freeSize,
         [idx \in {lm.index[piece.fns[t]] : t \in free} |->
            LET t == CHOOSE t \in free : lm.index[piece.fns[t]] = idx
            IN Frac(piece.moments[t], sum)])

\* std::sort of a vector of indices
RECURSIVE InsertIndex(_, _)
InsertIndex(sorted, x) ==
    IF sorted = <<>> THEN <<x>>
    ELSE IF x < sorted[Len(sorted)]
         THEN InsertIndex(SubSeq(sorted, 1, Len(sorted) - 1), x) \o <<sorted[Len(sorted)]>>
         ELSE Append(sorted, x)

RECURSIVE SortIndicesPrefix(_, _)
SortIndicesPrefix(s, n) ==
    IF n = 0 THEN <<>> ELSE InsertIndex(SortIndicesPrefix(s, n - 1), s[n])

SortIndices(s) == SortIndicesPrefix(s, Len(s))

\* constr_helper::operator<
RECURSIVE LexLess(_, _, _)
LexLess(a, b, i) ==
    IF i > Len(a) THEN FALSE
    ELSE IF a[i] # b[i] THEN a[i] < b[i]
    ELSE LexLess(a, b, i + 1)

ConstrHelperLess(a, b) ==
    IF Len(a.globalIndices) # Len(b.globalIndices)
    THEN Len(a.globalIndices) < Len(b.globalIndices)
    ELSE LexLess(a.globalIndices, b.globalIndices, 1)

\* std::sort of constr_helpers
RECURSIVE InsertConstr(_, _)
InsertConstr(sorted, x) ==
    IF sorted = <<>> THEN <<x>>
    ELSE IF ConstrHelperLess(x, sorted[Len(sorted)])
         THEN InsertConstr(SubSeq(sorted, 1, Len(sorted) - 1), x)
                \o <<sorted[Len(sorted)]>>
         ELSE Append(sorted, x)

RECURSIVE SortConstrPrefix(_, _)
SortConstrPrefix(s, n) ==
    IF n = 0 THEN <<>> ELSE InsertConstr(SortConstrPrefix(s, n - 1), s[n])

SortConstr(s) == SortConstrPrefix(s, Len(s))

\* "Store and sort global indices for constraint"
GlobalIndicesOf(dm, lm, patch, vector) ==
    LET rows == Ascending(DOMAIN vector.nz)
    IN SortIndices([n \in 1..Len(rows) |->
                      GIndex(dm, InverseOnPatch(lm, rows[n]), patch)])

\* "Transfer constraint to artificial ifaces": the copies of a constraint
\* on the patches that hold an artificial copy of every dof of its support
TransferredConstraints(loc, info, constraint) ==
    LET table == info[constraint.patch]
        keys == Ascending(DOMAIN table)
        ok(key) == \A r \in DOMAIN constraint.vector.nz : table[key][r] # 0
        copy(key) ==
            [patch |-> key,
             vector |-> SparseVector(loc[key].freeSize,
                [idx \in {loc[key].index[table[key][r] - 1] :
                            r \in DOMAIN constraint.vector.nz} |->
                    LET r == CHOOSE r \in DOMAIN constraint.vector.nz :
                                loc[key].index[table[key][r] - 1] = idx
                    IN constraint.vector.nz[r]]),
             globalIndices |-> constraint.globalIndices]
    IN Concat([n \in 1..Len(keys) |-> IF ok(keys[n]) THEN <<copy(keys[n])>> ELSE <<>>])

\* every access of the transfer is in range: the rows of the vectors of the
\* table, the indices they hold and the local indices these map to
TransferInRange(loc, info, constraint) ==
    LET table == info[constraint.patch]
        rows == DOMAIN constraint.vector.nz
    IN \A key \in DOMAIN table :
          /\ key \in DOMAIN loc
          /\ \A r \in rows : r \in DOMAIN table[key]
          /\ (\A r \in rows : table[key][r] # 0)
               => \A r \in rows :
                     /\ (table[key][r] - 1) \in DOMAIN loc[key].index
                     /\ loc[key].index[table[key][r] - 1] < loc[key].freeSize

\* the constr_helpers one piece of a component contributes
PieceConstraints(dm, loc, info, status, piece) ==
    LET vector == AssembleAverage(loc[piece.patch], piece)
        constraint == [patch |-> piece.patch, vector |-> vector,
                       globalIndices |-> GlobalIndicesOf(dm, loc[piece.patch],
                                                         piece.patch, vector)]
    IN IF NonZeros(vector) > 0
       THEN (IF HasArtificialDofs(status)
             THEN TransferredConstraints(loc, info, constraint) ELSE <<>>)
            \o <<constraint>>
       ELSE <<>>

\* no piece of the component makes the transfer leave its tables
ComponentInRange(dm, loc, info, status, component) ==
    \A n \in DOMAIN component.pieces :
       LET piece == component.pieces[n]
           vector == AssembleAverage(loc[piece.patch], piece)
       IN (NonZeros(vector) > 0 /\ HasArtificialDofs(status))
            => TransferInRange(loc, info, [patch |-> piece.patch, vector |-> vector])

\* the sorted constraints of one component
ComponentConstraints(dm, loc, info, status, component) ==
    SortConstr(Concat([n \in 1..Size(component.pieces) |->
        PieceConstraints(dm, loc, info, status, component.pieces[n - 1])]))

\* every run of equal constraints gets a new primal dof
NewPrimalDofKeepAll(constraints, i, dim, d) == TRUE

\* a run of equal constraints that begins at i gets a new primal dof if it
\* has a second member or the component has the dimension of the domain
NewPrimalDof(constraints, i, dim, d) ==
    \/ (i < Len(constraints) /\ ~ConstrHelperLess(constraints[i], constraints[i + 1]))
    \/ dim = d

\* "Construct data" for one component; i is 1-based
RECURSIVE ConstructData(_, _, _, _, _)
ConstructData(constraints, i, dim, d, acc) ==
    IF i > Len(constraints) THEN acc
    ELSE LET first == i = 1 \/ ConstrHelperLess(constraints[i - 1], constraints[i])
             counted == first /\ NewPrimalDof(constraints, i, dim, d)
             ignore == first /\ ~NewPrimalDof(constraints, i, dim, d)
             nPrimalDofs == IF counted THEN acc.nPrimalDofs + 1 ELSE acc.nPrimalDofs
             k == constraints[i].patch
         IN ConstructData(constraints, i + 1, dim, d,
              IF ignore THEN acc
              ELSE [ok |-> acc.ok,
                    nPrimalDofs |-> nPrimalDofs,
                    constraints |-> [acc.constraints EXCEPT
                                       ![k] = PushBack(@, constraints[i].vector)],
                    indices |-> [acc.indices EXCEPT ![k] = PushBack(@, nPrimalDofs - 1)]])

\* the loop over all components
RECURSIVE AverageComponents(_, _, _, _, _, _, _, _, _)
AverageComponents(components, n, dm, loc, info, status, dim, d, acc) ==
    IF n >= Size(components) THEN acc
    ELSE IF components[n].dim = d /\ ~ComponentInRange(dm, loc, info, status, components[n])
    THEN [acc EXCEPT !.ok = FALSE]
    ELSE AverageComponents(components, n + 1, dm, loc, info, status, dim, d,
            IF components[n].dim = d
            THEN ConstructData(ComponentConstraints(dm, loc, info, status, components[n]),
                               1, dim, d, acc)
            ELSE acc)

\* the arguments a caller may pass: the geometry of the bases with any d
\* from 0 to dim + 1, or a foreign geometry
InterfaceArgs(mb) ==
    {[geo |-> Input(id).geo, d |-> d] :
        id \in {x \in InputIds : Input(x).basis = mb}, d \in 0..(mb.dim + 1)}
    \cup {[geo |-> "Foreign", d |-> 1]}

\* the dimension of the domain is rejected too
DimensionRejectedAtTop(d, dim) == ~(d > 0) \/ ~(d < dim)

\* the two assertions on d
DimensionRejected(d, dim) == ~(d > 0) \/ ~(d <= dim)

\* one flag shared by the interface averages of all dimensions
InterfaceFlagShared(d) == 16

InterfaceFlag(d) == Shl1(3 + d)

interfaceAveragesAsPrimals ==
    /\ Live /\ Usable
    /\ \E args \in InterfaceArgs(m_multiBasis) :
         LET geo == Geometry(args.geo, m_multiBasis)
             d == args.d
             data == AverageComponents(geo.components, 0, m_dofMapperGlobal,
                        m_dofMapperLocal, m_artificialDofInfo, m_status,
                        m_multiBasis.dim, d,
                        [ok |-> TRUE, nPrimalDofs |-> m_nPrimalDofs,
                         constraints |-> m_primalConstraints,
                         indices |-> m_primalDofIndices])
         IN IF ~IsInitialized(m_status)
            THEN Throw("interfaceAveragesAsPrimals", args, "SequencingError")
            ELSE IF DimensionRejected(d, m_multiBasis.dim)
                    \/ geo.nPatches # m_multiBasis.nBases
                    \/ geo.parDim # m_multiBasis.dim
            THEN Throw("interfaceAveragesAsPrimals", args, "ConfigurationError")
            ELSE IF HasFlag(m_status, InterfaceFlag(d))
            THEN Throw("interfaceAveragesAsPrimals", args, "SequencingError")
            ELSE /\ m_status' = SetFlag(m_status, InterfaceFlag(d))
                 /\ m_nPrimalDofs' = data.nPrimalDofs
                 /\ m_primalConstraints' = data.constraints
                 /\ m_primalDofIndices' = data.indices
                 /\ call' = Call("interfaceAveragesAsPrimals", args,
                                 IF data.ok THEN "ok" ELSE "InternalInvariantViolation")
                 /\ UNCHANGED <<m_multiBasis, m_dofMapperGlobal, m_dofMapperLocal,
                                m_fixedPart, m_jumpMatrices, m_artificialDofInfo,
                                customCalls>>

(***************************************************************************)
(* skeletonDofs                                                            *)
(***************************************************************************)
\* the positions of the coupled dofs in the patch instead of their local indices
RECURSIVE SkeletonFromPositions(_, _, _, _)
SkeletonFromPositions(dm, lm, patch, i) ==
    IF i >= dm.patchSize[patch] THEN <<>>
    ELSE (IF IsCoupled(dm, i, patch) THEN <<i>> ELSE <<>>)
         \o SkeletonFromPositions(dm, lm, patch, i + 1)

RECURSIVE SkeletonFrom(_, _, _, _)
SkeletonFrom(dm, lm, patch, i) ==
    IF i >= dm.patchSize[patch] THEN <<>>
    ELSE (IF IsCoupled(dm, i, patch) THEN <<lm.index[i]>> ELSE <<>>)
         \o SkeletonFrom(dm, lm, patch, i + 1)

skeletonDofs ==
    /\ Live /\ Usable
    /\ \E patch \in {0} \cup DOMAIN m_dofMapperLocal :
         IF ~IsInitialized(m_status)
         THEN Throw("skeletonDofs", patch, "SequencingError")
         ELSE Return("skeletonDofs", patch,
                     SkeletonFrom(m_dofMapperGlobal, m_dofMapperLocal[patch], patch, 0))

(***************************************************************************)
(* constructGlobalSolutionFromLocalSolutions                               *)
(***************************************************************************)
\* global vectors over the free global dofs
GlobalVectors(dm) ==
    {[g \in 0..(dm.freeSize - 1) |-> 10 + g], [g \in 0..(dm.freeSize - 1) |-> 7 * (g + 1)]}

\* the local vectors that carry the values of the global vector global
SplitGlobal(dm, loc, global) ==
    [k \in DOMAIN loc |->
        [c \in 0..(loc[k].freeSize - 1) |->
            global[GIndex(dm, InverseOnPatch(loc[k], c), k)]]]

\* "localContribs": local vectors that agree with a global vector, local
\* vectors that differ from patch to patch, and a list that is too long
LocalContribs(dm, loc) ==
    {SplitGlobal(dm, loc, global) : global \in GlobalVectors(dm)}
    \cup {[k \in DOMAIN loc |-> [c \in 0..(loc[k].freeSize - 1) |-> 1000 * (k + 1) + c]]}
    \cup {[k \in 0..Size(loc) |-> Empty]}

\* the loop assigning a row only while it still holds the initial zero
RECURSIVE AssignRowsFirstWins(_, _, _, _, _, _)
AssignRowsFirstWins(dm, loc, localContribs, slots, j, result) ==
    IF j > Len(slots) THEN result
    ELSE LET k == slots[j].patch
             i == slots[j].idx
         IN AssignRowsFirstWins(dm, loc, localContribs, slots, j + 1,
              IF loc[k].index[i] < loc[k].freeSize /\ IsFree(dm, i, k)
                 /\ result[GIndex(dm, i, k)] = 0
              THEN [result EXCEPT ![GIndex(dm, i, k)] = localContribs[k][loc[k].index[i]]]
              ELSE result)

\* the loop with += in place of the assignment of the row
RECURSIVE AssignRowsAdding(_, _, _, _, _, _)
AssignRowsAdding(dm, loc, localContribs, slots, j, result) ==
    IF j > Len(slots) THEN result
    ELSE LET k == slots[j].patch
             i == slots[j].idx
         IN AssignRowsAdding(dm, loc, localContribs, slots, j + 1,
              IF loc[k].index[i] < loc[k].freeSize /\ IsFree(dm, i, k)
              THEN [result EXCEPT ![GIndex(dm, i, k)] = @ + localContribs[k][loc[k].index[i]]]
              ELSE result)

\* the loop over the true basis functions of all patches: each assigns its
\* row of the result
RECURSIVE AssignRows(_, _, _, _, _, _)
AssignRows(dm, loc, localContribs, slots, j, result) ==
    IF j > Len(slots) THEN result
    ELSE LET k == slots[j].patch
             i == slots[j].idx
         IN AssignRows(dm, loc, localContribs, slots, j + 1,
              IF loc[k].index[i] < loc[k].freeSize /\ IsFree(dm, i, k)
              THEN [result EXCEPT ![GIndex(dm, i, k)] = localContribs[k][loc[k].index[i]]]
              ELSE result)

constructGlobalSolutionFromLocalSolutions ==
    /\ Live /\ Usable
    /\ \E localContribs \in LocalContribs(m_dofMapperGlobal, m_dofMapperLocal) :
         IF ~IsInitialized(m_status)
         THEN Throw("constructGlobalSolutionFromLocalSolutions", localContribs,
                    "SequencingError")
         ELSE IF m_dofMapperGlobal.numPatches # Size(localContribs)
         THEN Throw("constructGlobalSolutionFromLocalSolutions", localContribs,
                    "ConfigurationError")
         ELSE Return("constructGlobalSolutionFromLocalSolutions", localContribs,
                AssignRows(m_dofMapperGlobal, m_dofMapperLocal, localContribs,
                           Slots(m_multiBasis.size), 1,
                           [g \in 0..(m_dofMapperGlobal.freeSize - 1) |-> 0]))

Next ==
    \/ init
    \/ cornersAsPrimals
    \/ interfaceAveragesAsPrimals
    \/ customPrimalConstraints
    \/ computeJumpMatrices
    \/ skeletonDofs
    \/ constructGlobalSolutionFromLocalSolutions

Spec == Init /\ [][Next]_vars

(***************************************************************************)
(* Properties                                                              *)
(***************************************************************************)
\* the operations that add primal degrees of freedom
Builders == {"cornersAsPrimals", "interfaceAveragesAsPrimals", "customPrimalConstraints"}

\* C1: before init has run on a mapper, a call of any operation other than
\* init is rejected with an error and assigns no member of the mapper
C1_RejectedBeforeInit ==
    [][(~IsInitialized(m_status) /\ call'.op # "init")
         => (call'.err = "SequencingError" /\ UNCHANGED state)]_vars

\* computeJumpMatrices has been called on a mapper without init
C1_Witness ==
    /\ ~IsInitialized(m_status)
    /\ call.op = "computeJumpMatrices"
    /\ call.err = "SequencingError"
    /\ m_jumpMatrices = Empty

\* the one-shot phases that follow init
OneShot == {"cornersAsPrimals", "computeJumpMatrices", "interfaceAveragesAsPrimals"}

\* the bit of m_status that records the phase of the call c
PhaseBit(c) ==
    CASE c.op = "cornersAsPrimals" -> 8
      [] c.op = "computeJumpMatrices" -> 4
      [] c.op = "interfaceAveragesAsPrimals" -> 2 ^ (3 + c.args.d)

\* the arguments of the call c pass the argument checks of its phase
ValidArgs(c) ==
    c.op = "interfaceAveragesAsPrimals"
      => /\ c.args.d > 0 /\ c.args.d <= m_multiBasis.dim
         /\ c.args.geo # "Foreign"

\* C2: after an init, a call of a one-shot phase (of interfaceAveragesAsPrimals
\* for a dimension d) whose phase has run is rejected with a SequencingError;
\* a call whose phase has not run is accepted and its phase is recorded, also
\* when other phases or other dimensions have run; a phase once recorded stays
\* recorded until the next init, so a phase succeeds at most once per init
C2_OneShotPhases ==
    [][/\ (IsInitialized(m_status) /\ call'.op \in OneShot /\ ValidArgs(call'))
            => IF HasFlag(m_status, PhaseBit(call'))
               THEN call'.err = "SequencingError"
               ELSE /\ call'.err # "SequencingError"
                    /\ HasFlag(m_status', PhaseBit(call'))
                    /\ call'.op = "cornersAsPrimals" => call'.err = "ok"
       /\ call'.op # "init"
            => \A bit \in {4, 8, 16, 32, 64} :
                  HasFlag(m_status, bit) => HasFlag(m_status', bit)]_vars

\* the interface averages of dimension 1 were rejected when called again,
\* after those of dimension 2, the corners and the jump matrices had run
C2_Witness ==
    /\ call.op = "interfaceAveragesAsPrimals" /\ call.args.d = 1
    /\ call.args.geo # "Foreign"
    /\ call.err = "SequencingError"
    /\ HasFlag(m_status, 16) /\ HasFlag(m_status, 32)
    /\ HasFlag(m_status, 8) /\ HasFlag(m_status, 4)


\* the arguments of init pass its checks: one component, as many patches as
\* bases, and every patch at least as large as its basis
ValidInput(in) ==
    /\ in.mapper.componentsSize = 1
    /\ in.mapper.numPatches = in.basis.nBases
    /\ \A k \in 0..(in.mapper.numPatches - 1) :
          in.mapper.patchSize[k] >= in.basis.size[k]

\* C3 as stated: a call of init on a mapper that has been initialized is
\* rejected
C3_InitIsOneShot ==
    [][(IsInitialized(m_status) /\ call'.op = "init") => call'.err # "ok"]_vars

\* C3 amended: init has no check of the phase flags; a call of init on a
\* mapper that has been initialized, with arguments that pass the checks of
\* init, is not rejected: it runs again and leaves only the initialized flag
\* and the flag of artificial dofs set, no primal dofs, empty lists of primal
\* constraints and primal ids for the patches of the new mapper, and no jump
\* matrices; without artificial dofs it completes without error
C3_InitRunsAgain ==
    [][(IsInitialized(m_status) /\ call'.op = "init" /\ ValidInput(Input(call'.args)))
         => /\ call'.err \in {"ok", "InternalInvariantViolation"}
            /\ m_status' \in {1, 3}
            /\ m_status' = 1 => call'.err = "ok"
            /\ m_nPrimalDofs' = 0
            /\ m_jumpMatrices' = Empty
            /\ m_dofMapperGlobal' = Input(call'.args).mapper
            /\ Size(m_dofMapperLocal') = m_dofMapperGlobal'.numPatches
            /\ Size(m_primalConstraints') = m_dofMapperGlobal'.numPatches
            /\ Size(m_primalDofIndices') = m_dofMapperGlobal'.numPatches
            /\ \A k \in DOMAIN m_dofMapperLocal' :
                  /\ m_primalConstraints'[k] = Empty
                  /\ m_primalDofIndices'[k] = Empty]_vars

\* init ran again: the table of artificial dofs that an earlier init with
\* another mapper filled is still there
C3_Witness ==
    /\ call.op = "init" /\ call.err = "ok"
    /\ call.args.kind = "LShape"
    /\ customCalls = 0
    /\ m_status = 1 /\ m_nPrimalDofs = 0 /\ m_jumpMatrices = Empty
    /\ m_artificialDofInfo # Empty


\* C4: a call rejected with a SequencingError leaves every member of the
\* mapper as it was before the call: the phase flags, the primal-dof count,
\* the primal constraints and primal ids of every patch, the jump matrices
C4_RejectedCallChangesNothing ==
    [][call'.err = "SequencingError"
         => /\ m_status' = m_status
            /\ m_nPrimalDofs' = m_nPrimalDofs
            /\ m_primalConstraints' = m_primalConstraints
            /\ m_primalDofIndices' = m_primalDofIndices
            /\ m_jumpMatrices' = m_jumpMatrices
            /\ UNCHANGED state]_vars

\* the jump matrices were called for a second time, on a mapper that has
\* jump matrices and primal dofs, and the call was rejected
C4_Witness ==
    /\ call.op = "computeJumpMatrices" /\ call.err = "SequencingError"
    /\ HasFlag(m_status, 4) /\ HasFlag(m_status, 8)
    /\ m_nPrimalDofs > 0
    /\ \E k \in DOMAIN m_jumpMatrices : m_jumpMatrices[k].rows > 0


\* C5: the primal-dof count never decreases: after a call of a builder
\* (cornersAsPrimals, interfaceAveragesAsPrimals for any d,
\* customPrimalConstraints), successful or rejected, the count is greater
\* than or equal to the count before the call
C5_PrimalDofCountMonotone ==
    [][call'.op \in Builders => m_nPrimalDofs' >= m_nPrimalDofs]_vars

\* the corners were added after interface averages and a custom constraint
\* and raised the count once more
C5_Witness ==
    /\ call.op = "cornersAsPrimals" /\ call.err = "ok"
    /\ HasFlag(m_status, 16) /\ customCalls = 1
    /\ m_nPrimalDofs >= 3
    /\ \E k \in DOMAIN m_primalDofIndices :
          /\ Size(m_primalDofIndices[k]) >= 3
          /\ m_primalDofIndices[k][Size(m_primalDofIndices[k]) - 1] = m_nPrimalDofs - 1
          /\ m_primalDofIndices[k][0] = 0


\* the nonzero entries of row r in the jump matrices of all patches
RowNonZeros(r) ==
    UNION {{[patch |-> k, col |-> rc[2], value |-> m_jumpMatrices[k].val[rc]] :
              rc \in {x \in DOMAIN m_jumpMatrices[k].val :
                        x[1] = r /\ m_jumpMatrices[k].val[x] # 0}} :
           k \in DOMAIN m_jumpMatrices}

\* C6: after computeJumpMatrices there is one jump matrix per patch, all with
\* the same number of rows, and every row r has, over the jump matrices of
\* all patches, exactly two nonzero entries, one +1 and one -1 (so they sum
\* to 0), in at most two of the matrices
C6_JumpRows ==
    /\ (call.op = "computeJumpMatrices" /\ call.err = "ok")
          => Size(m_jumpMatrices) = m_dofMapperGlobal.numPatches
    /\ \A k \in DOMAIN m_jumpMatrices :
          /\ m_jumpMatrices[k].rows = m_jumpMatrices[0].rows
          /\ m_jumpMatrices[k].cols = m_dofMapperLocal[k].freeSize
          /\ \A rc \in DOMAIN m_jumpMatrices[k].val :
                /\ rc[1] \in 0..(m_jumpMatrices[k].rows - 1)
                /\ rc[2] \in 0..(m_jumpMatrices[k].cols - 1)
    /\ m_jumpMatrices # Empty
          => \A r \in 0..(m_jumpMatrices[0].rows - 1) :
                LET nz == RowNonZeros(r)
                IN /\ Cardinality(nz) = 2
                   /\ {e.value : e \in nz} = {1, -1}
                   /\ Cardinality({e.patch : e \in nz}) <= 2

\* the jump matrices of three patches have five rows: a dof shared by three
\* patches was coupled fully redundantly
C6_Witness ==
    /\ call.op = "computeJumpMatrices" /\ call.err = "ok"
    /\ Size(m_jumpMatrices) = 3
    /\ m_jumpMatrices[0].rows = 5
    /\ \A r \in 0..4 : Cardinality(RowNonZeros(r)) = 2


\* the occurrences of coupled index c: the (patch, index) pairs of the global
\* mapper that map to it
Occurrences(c) ==
    LET slots == Slots(m_dofMapperGlobal.patchSize)
    IN {slots[n] : n \in {m \in 1..Len(slots) :
            /\ IsCoupled(m_dofMapperGlobal, slots[m].idx, slots[m].patch)
            /\ CIndex(m_dofMapperGlobal, slots[m].idx, slots[m].patch) = c}}

\* the coupled index of the dof that the entry e of a jump matrix belongs to
GroupOfEntry(e) ==
    CIndex(m_dofMapperGlobal, InverseOnPatch(m_dofMapperLocal[e.patch], e.col), e.patch)

\* the rows of the jump matrices whose two entries belong to coupled index c
RowsOfGroup(c) ==
    {r \in 0..(m_jumpMatrices[0].rows - 1) :
        \A e \in RowNonZeros(r) : GroupOfEntry(e) = c}

\* the number of rows the claim states for a group of n occurrences
StatedRows(n, fullyRedundant) ==
    IF fullyRedundant THEN (n * (n - 1)) \div 2 ELSE n - 1

\* C7: a call of computeJumpMatrices that keeps the corners, on a mapper whose
\* coupled dofs all have two or more occurrences, completes; after a call that
\* completed, every coupled-dof group with n occurrences that was not emptied
\* has n-1 rows in minimal mode and n(n-1)/2 rows in fully redundant mode
\* (1 row for 2 occurrences in both modes, 2 or 3 rows for 3 occurrences), an
\* emptied group has no row, and the number of rows is the sum over the groups
C7_RowsPerGroup ==
    (call.op = "computeJumpMatrices" /\ call.err # "SequencingError")
      => LET groups == 0..(m_dofMapperGlobal.coupledSize - 1)
             emptied == IF call.args.excludeCorners
                        THEN CornerCoupledIndices(m_multiBasis, m_dofMapperGlobal)
                        ELSE {}
         IN /\ (~call.args.excludeCorners
                  /\ \A c \in groups : Cardinality(Occurrences(c)) >= 2)
                 => call.err = "ok"
            /\ call.err = "ok"
                 => /\ \A c \in groups \ emptied :
                          LET n == Cardinality(Occurrences(c))
                          IN /\ Cardinality(RowsOfGroup(c)) =
                                   StatedRows(n, call.args.fullyRedundant)
                             /\ n = 2 => Cardinality(RowsOfGroup(c)) = 1
                             /\ n = 3 => Cardinality(RowsOfGroup(c)) =
                                           IF call.args.fullyRedundant THEN 3 ELSE 2
                    /\ \A c \in emptied : RowsOfGroup(c) = {}
                    /\ m_jumpMatrices[0].rows =
                         SumTo([c \in groups |-> Cardinality(RowsOfGroup(c))],
                               m_dofMapperGlobal.coupledSize)

\* a dof with three occurrences got three rows in fully redundant mode, next
\* to dofs with two occurrences that got one row each
C7_Witness ==
    /\ call.op = "computeJumpMatrices" /\ call.err = "ok"
    /\ call.args.fullyRedundant /\ ~call.args.excludeCorners
    /\ \E c \in 0..(m_dofMapperGlobal.coupledSize - 1) :
          Cardinality(Occurrences(c)) = 3 /\ Cardinality(RowsOfGroup(c)) = 3
    /\ \E c \in 0..(m_dofMapperGlobal.coupledSize - 1) :
          Cardinality(Occurrences(c)) = 2 /\ Cardinality(RowsOfGroup(c)) = 1


\* computeJumpMatrices was called with excludeCorners on a mapper that has a
\* corner function with a coupled global index, and got past its two checks
ExcludedCoupledCorner ==
    /\ call.op = "computeJumpMatrices" /\ call.err # "SequencingError"
    /\ call.args.excludeCorners
    /\ CornerCoupledIndices(m_multiBasis, m_dofMapperGlobal) # {}

\* C8: on a mapper in which a corner function has a coupled global index,
\* computeJumpMatrices with excludeCorners yields jump matrices with strictly
\* fewer multipliers than it yields without excludeCorners on the same
\* mapper, in minimal and in fully redundant mode
C8_ExcludeCornersReduces ==
    ExcludedCoupledCorner
      => LET kept == JumpResult(m_multiBasis, m_dofMapperGlobal, m_dofMapperLocal,
                                call.args.fullyRedundant, FALSE)
         IN /\ call.err = "ok"
            /\ kept.err = "ok"
            /\ m_jumpMatrices[0].rows < kept.jumpMatrices[0].rows

\* C9: when excludeCorners empties a coupled-dof group, computeJumpMatrices
\* completes without error in minimal and in fully redundant mode, and every
\* jump matrix has as many rows as multipliers were emitted
C9_EmptiedGroupNoError ==
    ExcludedCoupledCorner
      => /\ call.err = "ok"
         /\ Size(m_jumpMatrices) = m_dofMapperGlobal.numPatches
         /\ \A k \in DOMAIN m_jumpMatrices :
               m_jumpMatrices[k].rows =
                 Cardinality({r \in 0..(m_jumpMatrices[k].rows - 1) : RowNonZeros(r) # {}})


\* the sum over the patches of the number of free local dofs
SumOfLocalFreeSizes ==
    SumTo([k \in DOMAIN m_dofMapperLocal |-> m_dofMapperLocal[k].freeSize],
          Size(m_dofMapperLocal))

\* the number of (patch, index) pairs that the global mapper maps to g
NumOccurrences(g) ==
    LET slots == Slots(m_dofMapperGlobal.patchSize)
    IN Cardinality({n \in 1..Len(slots) :
          GIndex(m_dofMapperGlobal, slots[n].idx, slots[n].patch) = g})

\* an init without artificial dofs has completed
InitializedWithoutArtificialDofs ==
    /\ call.op = "init" /\ call.err = "ok"
    /\ IsInitialized(m_status) /\ ~HasArtificialDofs(m_status)

\* C10 as stated: after init with no artificial dofs the sum over the patches
\* of the local free sizes equals the number of free dofs of the global mapper
C10_SumEqualsGlobalFreeSize ==
    InitializedWithoutArtificialDofs
      => SumOfLocalFreeSizes = m_dofMapperGlobal.freeSize

\* C10 amended: after init with no artificial dofs the sum over the patches
\* of the local free sizes is the number of free dofs of the global mapper
\* plus, for every free global dof, the number of its occurrences beyond the
\* first; it equals the global number exactly when every free global dof
\* occurs once
C10_SumCountsOccurrences ==
    InitializedWithoutArtificialDofs
      => LET free == 0..(m_dofMapperGlobal.freeSize - 1)
         IN /\ SumOfLocalFreeSizes =
                 m_dofMapperGlobal.freeSize
                 + SumTo([g \in free |-> NumOccurrences(g) - 1],
                         m_dofMapperGlobal.freeSize)
            /\ (\A g \in free : NumOccurrences(g) >= 1)
                 => /\ SumOfLocalFreeSizes >= m_dofMapperGlobal.freeSize
                    /\ SumOfLocalFreeSizes = m_dofMapperGlobal.freeSize
                         <=> \A g \in free : NumOccurrences(g) = 1

\* init has completed on a mapper with boundary dofs and shared free dofs:
\* the local free sizes add up to more than the global number of free dofs
C10_Witness ==
    /\ InitializedWithoutArtificialDofs
    /\ m_dofMapperGlobal.boundarySize > 0
    /\ m_dofMapperGlobal.coupledSize > 0
    /\ SumOfLocalFreeSizes > m_dofMapperGlobal.freeSize


\* the local vectors hold, at every free local dof of every patch, the value
\* of the global vector g at the global dof of that local dof
HoldValuesOf(localContribs, g) ==
    /\ DOMAIN localContribs = DOMAIN m_dofMapperLocal
    /\ \A k \in DOMAIN m_dofMapperLocal :
          /\ DOMAIN localContribs[k] = 0..(m_dofMapperLocal[k].freeSize - 1)
          /\ \A i \in 0..(m_dofMapperGlobal.patchSize[k] - 1) :
                m_dofMapperLocal[k].index[i] < m_dofMapperLocal[k].freeSize
                  => localContribs[k][m_dofMapperLocal[k].index[i]] =
                       g[m_dofMapperGlobal.index[k][i]]

\* C11: round trip: when the local vectors passed to
\* constructGlobalSolutionFromLocalSolutions hold the values of a global
\* vector g at every free local dof, the result is g
C11_RoundTrip ==
    (call.op = "constructGlobalSolutionFromLocalSolutions" /\ call.err = "ok")
      => \A g \in GlobalVectors(m_dofMapperGlobal) :
            HoldValuesOf(call.args, g) => call.result = g

\* a global vector was split over patches that share free dofs and have
\* eliminated dofs, and was reconstructed
C11_Witness ==
    /\ call.op = "constructGlobalSolutionFromLocalSolutions" /\ call.err = "ok"
    /\ m_dofMapperGlobal.coupledSize > 0 /\ m_dofMapperGlobal.boundarySize > 0
    /\ \E g \in GlobalVectors(m_dofMapperGlobal) :
          HoldValuesOf(call.args, g) /\ call.result = g


\* the true basis functions (patch, index) that the global mapper maps to g
TrueOccurrences(g) ==
    UNION {{[patch |-> k, idx |-> i] :
              i \in {j \in 0..(m_multiBasis.size[k] - 1) :
                        m_dofMapperGlobal.index[k][j] = g}} :
           k \in DOMAIN m_multiBasis.size}

\* the last of a set of (patch, index) pairs: highest patch, then highest index
LastOccurrence(occ) ==
    CHOOSE s \in occ : \A t \in occ :
        t.patch < s.patch \/ (t.patch = s.patch /\ t.idx <= s.idx)

\* the value that the local vectors carry at the local dof of (patch, index)
LocalValue(localContribs, s) ==
    localContribs[s.patch][m_dofMapperLocal[s.patch].index[s.idx]]

\* C12: constructGlobalSolutionFromLocalSolutions is last-writer-wins: the
\* result holds, for every free global dof, the value that the local vector
\* of the highest-numbered patch carrying the dof as a true basis function
\* has there; the values at artificial local dofs and at the other patches
\* do not enter, and nothing is averaged or added
C12_LastWriterWins ==
    (call.op = "constructGlobalSolutionFromLocalSolutions" /\ call.err = "ok")
      => /\ DOMAIN call.result = 0..(m_dofMapperGlobal.freeSize - 1)
         /\ \A g \in DOMAIN call.result :
               IF TrueOccurrences(g) = {} THEN call.result[g] = 0
               ELSE call.result[g] =
                      LocalValue(call.args, LastOccurrence(TrueOccurrences(g)))

\* the local vectors disagreed on a dof that three patches carry as a true
\* basis function: the result holds the value of the highest patch
C12_Witness ==
    /\ call.op = "constructGlobalSolutionFromLocalSolutions" /\ call.err = "ok"
    /\ \E g \in DOMAIN call.result :
          /\ Cardinality({s.patch : s \in TrueOccurrences(g)}) = 3
          /\ \A s \in TrueOccurrences(g), t \in TrueOccurrences(g) :
                s.patch < t.patch
                  => LocalValue(call.args, s) # LocalValue(call.args, t)
          /\ call.result[g] = LocalValue(call.args, [patch |-> 2, idx |-> 1])


\* the places (patch, position) of the primal constraints that the step added
AddedConstraints ==
    UNION {{[patch |-> k, pos |-> n] :
              n \in Size(m_primalConstraints[k])..(Size(m_primalConstraints'[k]) - 1)} :
           k \in DOMAIN m_primalConstraints}

\* the global dof at which the constraint added at place e has its entry
GlobalDofOfAdded(e) ==
    LET row == m_primalConstraints'[e.patch][e.pos]
        local == CHOOSE l \in DOMAIN row.nz : TRUE
    IN m_dofMapperGlobal.index[e.patch][InverseOnPatch(m_dofMapperLocal[e.patch], local)]

\* the number of indices of patch k that the global mapper maps to g
NumOccurrencesOn(k, g) ==
    Cardinality({i \in 0..(m_dofMapperGlobal.patchSize[k] - 1) :
                   m_dofMapperGlobal.index[k][i] = g})

\* C13: the constraints that cornersAsPrimals creates have one unit entry
\* each; two of them carry the same primal id exactly when they belong to the
\* same global corner dof, on whatever patch they are; every patch on which
\* a free global dof is a corner function gets a constraint for it, and with
\* artificial dofs so does every patch that holds a pre-image of it
C13_SharedCornerIds ==
    [][(call'.op = "cornersAsPrimals" /\ call'.err = "ok")
         => /\ \A e \in AddedConstraints :
                  /\ Cardinality(DOMAIN m_primalConstraints'[e.patch][e.pos].nz) = 1
                  /\ e.pos \in DOMAIN m_primalDofIndices'[e.patch]
            /\ \A e \in AddedConstraints, f \in AddedConstraints :
                  GlobalDofOfAdded(e) = GlobalDofOfAdded(f)
                    <=> m_primalDofIndices'[e.patch][e.pos] =
                          m_primalDofIndices'[f.patch][f.pos]
            /\ \A k \in DOMAIN m_multiBasis.corner :
                  \A c \in DOMAIN m_multiBasis.corner[k] :
                     LET g == m_dofMapperGlobal.index[k][m_multiBasis.corner[k][c]]
                     IN g < m_dofMapperGlobal.freeSize
                          => \A j \in DOMAIN m_dofMapperLocal :
                                (j = k \/ (HasArtificialDofs(m_status)
                                           /\ NumOccurrencesOn(j, g) > 0))
                                  => \E e \in AddedConstraints :
                                        e.patch = j /\ GlobalDofOfAdded(e) = g]_vars

\* the corners were set up on a mapper with artificial dofs; a patch that
\* holds a corner dof only as an artificial copy shares its primal id
C13_Witness ==
    /\ call.op = "cornersAsPrimals" /\ call.err = "ok"
    /\ m_status = 11 /\ customCalls = 0
    /\ m_nPrimalDofs = 2
    /\ \E k \in DOMAIN m_primalDofIndices, j \in DOMAIN m_primalDofIndices :
          /\ k # j
          /\ \E n \in DOMAIN m_primalDofIndices[k], m \in DOMAIN m_primalDofIndices[j] :
                /\ m_primalDofIndices[k][n] = m_primalDofIndices[j][m]
                /\ \E l \in DOMAIN m_primalConstraints[j][m].nz :
                      InverseOnPatch(m_dofMapperLocal[j], l) >= m_multiBasis.size[j]


\* the free global dofs of the corner functions of all patches
FreeCornerDofs ==
    {g \in UNION {{m_dofMapperGlobal.index[k][m_multiBasis.corner[k][c]] :
                     c \in DOMAIN m_multiBasis.corner[k]} :
                  k \in DOMAIN m_multiBasis.corner} :
        g < m_dofMapperGlobal.freeSize}

\* C14: cornersAsPrimals raises the primal-dof count by the number of
\* distinct free global dofs among the corner functions of all patches;
\* corners with an eliminated global dof add nothing; on two squares that
\* share an edge and have no eliminated dof the count rises by 6
C14_CornerCount ==
    [][(call'.op = "cornersAsPrimals" /\ call'.err = "ok")
         => /\ m_nPrimalDofs' = m_nPrimalDofs + Cardinality(FreeCornerDofs)
            /\ (m_dofMapperGlobal = TwoSquares.mapper /\ m_multiBasis = TwoSquares.basis)
                 => m_nPrimalDofs' = m_nPrimalDofs + 6]_vars

\* the corners of two squares that share an edge were set up first: 6 primal
\* dofs, four corner constraints on each patch
C14_Witness ==
    /\ call.op = "cornersAsPrimals" /\ call.err = "ok"
    /\ m_dofMapperGlobal = TwoSquares.mapper /\ m_multiBasis = TwoSquares.basis
    /\ m_status = 9 /\ customCalls = 0
    /\ m_nPrimalDofs = 6
    /\ \A k \in DOMAIN m_primalDofIndices : Size(m_primalDofIndices[k]) = 4


\* the nonzero average rows of component n, taken in the state before the call
AverageRows(n, geo) ==
    Concat([t \in 1..Size(geo.components[n].pieces) |->
        PieceConstraints(m_dofMapperGlobal, m_dofMapperLocal, m_artificialDofInfo,
                         m_status, geo.components[n].pieces[t - 1])])

\* the groups of rows of the components of dimension d: a component and the
\* positions of all its rows with one signature
AverageGroups(geo, d) ==
    UNION {LET rows == AverageRows(n, geo)
           IN {[n |-> n, members |-> {i \in 1..Len(rows) :
                                        rows[i].globalIndices = rows[j].globalIndices}] :
                 j \in 1..Len(rows)} :
           n \in {c \in DOMAIN geo.components : geo.components[c].dim = d}}

\* the groups that are kept
KeptGroups(geo, d) ==
    {G \in AverageGroups(geo, d) : Cardinality(G.members) >= 2 \/ d = m_multiBasis.dim}

\* the constraints a step added that carry primal id p
AddedWithId(p) == {e \in AddedConstraints : m_primalDofIndices'[e.patch][e.pos] = p}

\* the added constraints E are exactly the rows of group G, each on its patch
SameRows(G, E, geo) ==
    LET rows == AverageRows(G.n, geo)
        inG(k, v) == {i \in G.members : rows[i].patch = k /\ rows[i].vector = v}
        inE(k, v) == {e \in E : e.patch = k /\ m_primalConstraints'[k][e.pos] = v}
    IN /\ \A i \in G.members :
            Cardinality(inG(rows[i].patch, rows[i].vector))
              = Cardinality(inE(rows[i].patch, rows[i].vector))
       /\ \A e \in E :
            Cardinality(inG(e.patch, m_primalConstraints'[e.patch][e.pos]))
              = Cardinality(inE(e.patch, m_primalConstraints'[e.patch][e.pos]))

\* C15: interfaceAveragesAsPrimals groups the nonzero average rows of each
\* component of dimension d by their sorted global-index signature; a group
\* of two or more rows gets one new primal id shared by all its rows, a
\* group of one row gets its own new id only when d is the dimension of the
\* domain, and any other group of one row adds no constraint and no id
C15_AverageGroups ==
    [][(call'.op = "interfaceAveragesAsPrimals" /\ call'.err = "ok")
         => LET geo == Geometry(call'.args.geo, m_multiBasis)
                d == call'.args.d
                kept == KeptGroups(geo, d)
                newIds == m_nPrimalDofs..(m_nPrimalDofs' - 1)
            IN /\ m_nPrimalDofs' = m_nPrimalDofs + Cardinality(kept)
               /\ \A e \in AddedConstraints :
                     m_primalDofIndices'[e.patch][e.pos] \in newIds
               /\ \A G \in kept : \E p \in newIds : SameRows(G, AddedWithId(p), geo)
               /\ \A p \in newIds : \E G \in kept : SameRows(G, AddedWithId(p), geo)
               /\ \A k \in DOMAIN m_primalConstraints :
                     /\ Size(m_primalConstraints'[k]) = Size(m_primalDofIndices'[k])
                     /\ \A i \in DOMAIN m_primalConstraints[k] :
                           /\ m_primalConstraints'[k][i] = m_primalConstraints[k][i]
                           /\ m_primalDofIndices'[k][i] = m_primalDofIndices[k][i]]_vars

\* on two squares the averages of the edges and then of the interiors were
\* set up: the shared edge gave one id to both patches, the six other edges
\* gave nothing, each interior gave its own id
C15_Witness ==
    /\ call.op = "interfaceAveragesAsPrimals" /\ call.err = "ok" /\ call.args.d = 2
    /\ m_multiBasis = TwoSquares.basis /\ m_dofMapperGlobal = TwoSquares.mapper
    /\ m_status = 49 /\ customCalls = 0
    /\ m_nPrimalDofs = 3
    /\ m_primalDofIndices[0] = Arr(<<0, 1>>)
    /\ m_primalDofIndices[1] = Arr(<<0, 2>>)


\* the positions in data of the pairs for patch k, in the order given
PairsFor(data, k) == Ascending({i \in DOMAIN data : data[i].patch = k})

\* C16: customPrimalConstraints appends every supplied (patch, row) pair,
\* duplicates included, to its patch under one id, the primal-dof count
\* before the call; the count rises by exactly 1; on an initialized mapper
\* the call is accepted every time
C16_CustomConstraints ==
    [][(call'.op = "customPrimalConstraints")
         => /\ call'.err = "ok" <=> IsInitialized(m_status)
            /\ call'.err = "ok" =>
                 /\ m_nPrimalDofs' = m_nPrimalDofs + 1
                 /\ \A k \in DOMAIN m_primalConstraints :
                      LET pairs == PairsFor(call'.args, k)
                          old == Size(m_primalConstraints[k])
                      IN /\ DOMAIN m_primalConstraints'[k] = 0..(old + Len(pairs) - 1)
                         /\ DOMAIN m_primalDofIndices'[k] = 0..(old + Len(pairs) - 1)
                         /\ \A i \in 0..(old - 1) :
                               /\ m_primalConstraints'[k][i] = m_primalConstraints[k][i]
                               /\ m_primalDofIndices'[k][i] = m_primalDofIndices[k][i]
                         /\ \A n \in 1..Len(pairs) :
                               /\ m_primalConstraints'[k][old + n - 1]
                                    = call'.args[pairs[n]].row
                               /\ m_primalDofIndices'[k][old + n - 1] = m_nPrimalDofs]_vars

\* a second custom call on two squares whose corners were set up: the pair
\* given twice for patch 0 was registered twice, all three pairs under id 7
C16_Witness ==
    /\ call.op = "customPrimalConstraints" /\ call.err = "ok"
    /\ m_dofMapperGlobal = TwoSquares.mapper
    /\ m_status = 9 /\ customCalls = 2 /\ m_nPrimalDofs = 8
    /\ Size(m_primalDofIndices[0]) = 8 /\ Size(m_primalDofIndices[1]) = 6
    /\ m_primalDofIndices[0][6] = 7 /\ m_primalDofIndices[0][7] = 7
    /\ m_primalConstraints[0][6] = m_primalConstraints[0][7]
    /\ m_primalDofIndices[1][5] = 7


\* C17: init fails with a ConfigurationError if the global mapper has more
\* than one component, if its number of patches differs from that of the
\* basis description, or if some patch declares fewer dofs than its basis has
C17_InitConfigurationErrors ==
    [][(call'.op = "init")
         => LET mb == Input(call'.args).basis
                dm == Input(call'.args).mapper
            IN (\/ dm.componentsSize > 1
                \/ dm.numPatches # mb.nBases
                \/ \E k \in DOMAIN dm.patchSize \cap DOMAIN mb.size :
                      dm.patchSize[k] < mb.size[k])
                 => call'.err = "ConfigurationError"]_vars

\* init failed at the second patch, which declares 2 dofs for a basis of 3
\* functions, after the first patch had been set up
C17_Witness ==
    /\ call.op = "init" /\ call.err = "ConfigurationError"
    /\ Input(call.args).mapper.patchSize = Arr(<<4, 2>>)
    /\ Input(call.args).basis.size = Arr(<<3, 3>>)
    /\ m_status = 3
    /\ m_dofMapperLocal[0].size = 4 /\ m_dofMapperLocal[1].size = 0


\* the positions on patch k, artificial ones included, whose global dof is coupled
CoupledPositions(k) ==
    {i \in 0..(m_dofMapperGlobal.patchSize[k] - 1) :
        LET g == m_dofMapperGlobal.index[k][i]
        IN /\ g < m_dofMapperGlobal.freeSize
           /\ g >= m_dofMapperGlobal.freeSize - m_dofMapperGlobal.coupledSize}

\* C18: skeletonDofs(k) returns the local free indices of exactly the dofs
\* of patch k, artificial ones included, whose global dof is coupled, in
\* strictly ascending order without duplicates
C18_SkeletonDofs ==
    (call.op = "skeletonDofs" /\ call.err = "ok")
      => LET k == call.args
             lm == m_dofMapperLocal[k]
             result == call.result
         IN /\ DOMAIN result = 1..Cardinality(CoupledPositions(k))
            /\ {result[n] : n \in DOMAIN result} = {lm.index[i] : i \in CoupledPositions(k)}
            /\ \A n \in DOMAIN result : result[n] >= 0 /\ result[n] < lm.freeSize
            /\ \A n \in DOMAIN result : n > 1 => result[n - 1] < result[n]

\* the skeleton of a patch of 3 functions with an eliminated first dof and
\* an artificial fourth dof: the two mirrored functions and the artificial dof
C18_Witness ==
    /\ call.op = "skeletonDofs" /\ call.err = "ok" /\ call.args = 0
    /\ m_dofMapperGlobal = Artificial.mapper /\ m_multiBasis = Artificial.basis
    /\ m_status = 3
    /\ CoupledPositions(0) = {1, 2, 3}
    /\ call.result = <<0, 1, 2>>


\* C19 as stated: interfaceAveragesAsPrimals accepts only 1 <= d < dim; a
\* call with d = 0 or with d >= dim is rejected and changes nothing
C19_OnlyBelowDim ==
    [][(call'.op = "interfaceAveragesAsPrimals")
         => LET d == call'.args.d
                dim == m_multiBasis.dim
            IN /\ call'.err = "ok" => (1 <= d /\ d < dim)
               /\ (d = 0 \/ d >= dim) => (call'.err # "ok" /\ UNCHANGED state)]_vars

\* C19: on an initialized mapper interfaceAveragesAsPrimals accepts the
\* dimensions 1 <= d <= dim, the dimension of the domain included: the
\* first call for such a d with the geometry of the bases passes all checks
\* of the arguments and of the phase and records its phase; a call
\* with d = 0 or d > dim fails with a ConfigurationError and changes nothing
C19_UpToDim ==
    [][(call'.op = "interfaceAveragesAsPrimals" /\ IsInitialized(m_status))
         => LET d == call'.args.d
                dim == m_multiBasis.dim
                geo == Geometry(call'.args.geo, m_multiBasis)
            IN /\ call'.err = "ok" => (1 <= d /\ d <= dim)
               /\ (d < 1 \/ d > dim)
                    => (call'.err = "ConfigurationError" /\ UNCHANGED state)
               /\ (/\ 1 <= d /\ d <= dim
                   /\ geo.nPatches = m_multiBasis.nBases /\ geo.parDim = dim
                   /\ ~HasFlag(m_status, Shl1(3 + d)))
                    => (/\ call'.err \notin {"ConfigurationError", "SequencingError"}
                        /\ HasFlag(m_status', Shl1(3 + d)))]_vars

\* the averages over the interiors of two squares (d = 2 in a domain of
\* dimension 2) were accepted first and gave each patch its own primal dof
C19_Witness ==
    /\ call.op = "interfaceAveragesAsPrimals" /\ call.err = "ok"
    /\ call.args.d = m_multiBasis.dim
    /\ m_multiBasis = TwoSquares.basis /\ m_dofMapperGlobal = TwoSquares.mapper
    /\ m_status = 33 /\ customCalls = 0
    /\ m_nPrimalDofs = 2
    /\ m_primalDofIndices[0] = Arr(<<0>>) /\ m_primalDofIndices[1] = Arr(<<1>>)


\* the occurrences of the coupled index c that computeJumpMatrices pairs,
\* ordered by patch and then by declared index: none if the corners are
\* excluded and c belongs to a corner function
OrderedOccurrences(c, excludeCorners) ==
    LET dm == m_dofMapperGlobal
        w == 1 + Cardinality(UNION {DOMAIN dm.index[k] : k \in DOMAIN dm.index})
        g == c + dm.freeSize - dm.coupledSize
        keys == Ascending({k * w + i : k \in DOMAIN dm.index, i \in 0..(w - 1)}
                          \cap UNION {{k * w + i : i \in {j \in DOMAIN dm.index[k] :
                                                           dm.index[k][j] = g}} :
                                      k \in DOMAIN dm.index})
        atCorner == \E k \in DOMAIN m_multiBasis.corner :
                       \E n \in DOMAIN m_multiBasis.corner[k] :
                          dm.index[k][m_multiBasis.corner[k][n]] = g
    IN IF excludeCorners /\ atCorner THEN <<>>
       ELSE [n \in 1..Len(keys) |-> [patch |-> keys[n] \div w, idx |-> keys[n] % w]]

\* the pairs (j1, j2) of positions, 1-based, stated for n occurrences
StatedPairs(n, fullyRedundant) ==
    {p \in (1..n) \X (1..n) : p[1] < p[2] /\ (fullyRedundant \/ p[1] = 1)}

\* the row with +1 at the earlier occurrence and -1 at the later one
StatedRow(earlier, later) ==
    {[patch |-> earlier.patch,
      col |-> m_dofMapperLocal[earlier.patch].index[earlier.idx], value |-> 1],
     [patch |-> later.patch,
      col |-> m_dofMapperLocal[later.patch].index[later.idx], value |-> -1]}

\* C20: computeJumpMatrices orders the occurrences of a group by patch and
\* then by declared local index; minimal mode pairs occurrence 0 with every
\* other one, fully redundant mode pairs every j1 < j2 once; each pair has
\* its own row, the rows are numbered consecutively from 0 group after group
\* in ascending coupled-index order, and a row holds +1 in the matrix of the
\* earlier occurrence's patch at its local column and -1 in the matrix of
\* the later occurrence's patch at its local column
C20_JumpPairs ==
    (call.op = "computeJumpMatrices" /\ call.err = "ok")
      => LET groups == 0..(m_dofMapperGlobal.coupledSize - 1)
             occ(c) == OrderedOccurrences(c, call.args.excludeCorners)
             pairs(c) == StatedPairs(Len(occ(c)), call.args.fullyRedundant)
             count == [c \in groups |-> Cardinality(pairs(c))]
             first(c) == SumTo(count, c)
             total == SumTo(count, m_dofMapperGlobal.coupledSize)
         IN /\ \A k \in DOMAIN m_jumpMatrices :
                  /\ m_jumpMatrices[k].rows = total
                  /\ \A rc \in DOMAIN m_jumpMatrices[k].val : rc[1] \in 0..(total - 1)
            /\ \A c \in groups : \A p \in pairs(c) :
                  \E r \in first(c)..(first(c) + count[c] - 1) :
                     RowNonZeros(r) = StatedRow(occ(c)[p[1]], occ(c)[p[2]])

\* three squares in an L, minimal mode: rows 0 and 1 couple the two shared
\* edges' dofs, rows 2 and 3 pair the occurrence of the inner vertex on
\* patch 0 with those on patches 1 and 2
C20_Witness ==
    /\ call.op = "computeJumpMatrices" /\ call.err = "ok"
    /\ ~call.args.fullyRedundant /\ ~call.args.excludeCorners
    /\ m_dofMapperGlobal = LShape.mapper
    /\ m_jumpMatrices[0].rows = 4
    /\ RowNonZeros(0) = {[patch |-> 0, col |-> 1, value |-> 1],
                         [patch |-> 1, col |-> 0, value |-> -1]}
    /\ RowNonZeros(2) = {[patch |-> 0, col |-> 3, value |-> 1],
                         [patch |-> 1, col |-> 2, value |-> -1]}
    /\ RowNonZeros(3) = {[patch |-> 0, col |-> 3, value |-> 1],
                         [patch |-> 2, col |-> 1, value |-> -1]}


\* the coupled indices whose group computeJumpMatrices empties
PurgedGroups(excludeCorners) ==
    {c \in 0..(m_dofMapperGlobal.coupledSize - 1) :
        OrderedOccurrences(c, FALSE) # <<>> /\ OrderedOccurrences(c, excludeCorners) = <<>>}

\* C21: computeJumpMatrices fails with an InternalInvariantViolation
\* whenever a group that remains after the optional corner purge has fewer
\* than 2 occurrences, for either value of excludeCorners and fullyRedundant
C21_SmallGroupFails ==
    (call.op = "computeJumpMatrices" /\ call.err # "SequencingError")
      => ((\E c \in 0..(m_dofMapperGlobal.coupledSize - 1) :
              /\ c \notin PurgedGroups(call.args.excludeCorners)
              /\ Len(OrderedOccurrences(c, call.args.excludeCorners)) < 2)
            => call.err = "InternalInvariantViolation")


\* C22 as stated: with excludeCorners a group is purged only if a
\* cornersAsPrimals call before computeJumpMatrices registered the corner
\* primal constraints of its dof; a group never flagged keeps its rows
C22_PurgeOnlyFlagged ==
    (call.op = "computeJumpMatrices" /\ call.err = "ok" /\ call.args.excludeCorners)
      => \A c \in 0..(m_dofMapperGlobal.coupledSize - 1) :
            (Cardinality(Occurrences(c)) >= 2 /\ RowsOfGroup(c) = {})
              => HasFlag(m_status, 8)

\* C22: with excludeCorners a completed computeJumpMatrices has purged
\* exactly the groups of the coupled dofs that are a corner function of
\* some patch, whether or not cornersAsPrimals has run: such a group has no
\* row, every other group has the rows of its pairs
C22_PurgeByGeometry ==
    (call.op = "computeJumpMatrices" /\ call.err = "ok" /\ call.args.excludeCorners)
      => \A c \in 0..(m_dofMapperGlobal.coupledSize - 1) :
            LET n == Cardinality(Occurrences(c))
            IN IF c \in PurgedGroups(TRUE)
               THEN /\ RowsOfGroup(c) = {}
                    /\ \A r \in 0..(m_jumpMatrices[0].rows - 1) :
                          \A e \in RowNonZeros(r) : GroupOfEntry(e) # c
               ELSE Cardinality(RowsOfGroup(c)) = StatedRows(n, call.args.fullyRedundant)

\* the corners were never set up as primal dofs, and a call that excludes
\* the corners dropped the two corner dofs of the shared edge and kept the
\* row of the inner dof of that edge
C22_Witness ==
    /\ call.op = "computeJumpMatrices" /\ call.err = "ok" /\ call.args.excludeCorners
    /\ m_dofMapperGlobal = TwoSquaresDirichlet.mapper
    /\ m_status = 5 /\ m_nPrimalDofs = 0
    /\ PurgedGroups(TRUE) = {0, 2}
    /\ m_jumpMatrices[0].rows = 1
    /\ RowsOfGroup(1) = {0}


\* the true (non-artificial) basis functions of the arguments in, as
\* (patch, index) pairs
TrueFunctions(in) ==
    UNION {{[patch |-> k, idx |-> i] : i \in 0..(in.basis.size[k] - 1)} :
           k \in DOMAIN in.basis.size}

\* two true basis functions of in map to one free global index
TwoOwners(in) ==
    \E s \in TrueFunctions(in) : \E t \in TrueFunctions(in) :
        /\ s # t
        /\ in.mapper.index[s.patch][s.idx] = in.mapper.index[t.patch][t.idx]
        /\ in.mapper.index[s.patch][s.idx] < in.mapper.freeSize

\* C23: when artificial dofs are present, init fails with an
\* InternalInvariantViolation whenever two true basis functions, of two
\* patches or of one, map to the same free global index, whichever patch
\* the first of them belongs to, patch 0 included
C23_TwoOwnersRejected ==
    (call.op = "init" /\ ValidInput(Input(call.args))
       /\ (\E k \in DOMAIN Input(call.args).basis.size :
              Input(call.args).mapper.patchSize[k] > Input(call.args).basis.size[k])
       /\ TwoOwners(Input(call.args)))
      => call.err = "InternalInvariantViolation"


\* the artificial positions of patch j
ArtificialPositions(j) ==
    {i \in DOMAIN m_dofMapperGlobal.index[j] : i >= m_multiBasis.size[j]}

\* the global dof behind the local free index r of patch k
GlobalOfLocal(k, r) ==
    m_dofMapperGlobal.index[k][InverseOnPatch(m_dofMapperLocal[k], r)]

\* patch j holds an artificial copy of every dof in the support of the row v of patch k
MirrorsAll(j, k, v) ==
    \A r \in DOMAIN v.nz :
       \E i \in ArtificialPositions(j) : m_dofMapperGlobal.index[j][i] = GlobalOfLocal(k, r)

\* w is the row v of patch k carried to the artificial copies on patch j
IsReplica(w, j, k, v) ==
    /\ w.size = m_dofMapperLocal[j].freeSize
    /\ Cardinality(DOMAIN w.nz) = Cardinality(DOMAIN v.nz)
    /\ \A r \in DOMAIN v.nz :
          \E i \in ArtificialPositions(j) :
             /\ m_dofMapperGlobal.index[j][i] = GlobalOfLocal(k, r)
             /\ m_dofMapperLocal[j].index[i] \in DOMAIN w.nz
             /\ w.nz[m_dofMapperLocal[j].index[i]] = v.nz[r]

\* C24: when artificial dofs exist, interfaceAveragesAsPrimals replicates
\* an average row of patch k onto another patch j exactly when j holds an
\* artificial copy of every dof in the support of the row; the replica has
\* the same values at the mirrored local free indices of j and shares the
\* primal id of the row; a patch that mirrors only a part of the support
\* receives no replica
C24_ReplicatedOnFullMirrors ==
    [][(call'.op = "interfaceAveragesAsPrimals" /\ call'.err = "ok"
          /\ HasArtificialDofs(m_status) /\ call'.args.d = m_multiBasis.dim)
         => LET geo == Geometry(call'.args.geo, m_multiBasis)
                pieces == {[n |-> n, t |-> t] :
                             n \in {c \in DOMAIN geo.components :
                                      geo.components[c].dim = call'.args.d},
                             t \in 0..0}
                rowOf(x) == AssembleAverage(
                               m_dofMapperLocal[geo.components[x.n].pieces[x.t].patch],
                               geo.components[x.n].pieces[x.t])
                patchOf(x) == geo.components[x.n].pieces[x.t].patch
            IN \A x \in pieces : NonZeros(rowOf(x)) > 0 =>
                 \E e \in AddedConstraints :
                    /\ e.patch = patchOf(x)
                    /\ m_primalConstraints'[e.patch][e.pos] = rowOf(x)
                    /\ LET p == m_primalDofIndices'[e.patch][e.pos]
                       IN \A j \in DOMAIN m_dofMapperLocal \ {patchOf(x)} :
                            LET got == {f \in AddedWithId(p) : f.patch = j}
                            IN IF MirrorsAll(j, patchOf(x), rowOf(x))
                               THEN /\ Cardinality(got) = 1
                                    /\ \A f \in got :
                                         IsReplica(m_primalConstraints'[j][f.pos], j,
                                                   patchOf(x), rowOf(x))
                               ELSE got = {}]_vars


(***************************************************************************)
(* C25  Failure atomicity: a call that fails with a ConfigurationError or  *)
(* an InternalInvariantViolation leaves the phase state (m_status) as it   *)
(* was before the call: a failed init does not leave the mapper marked     *)
(* initialized, a failed computeJumpMatrices does not leave the jump       *)
(* matrices marked as computed.                                            *)
(***************************************************************************)
C25_FailureAtomicity ==
    [][call'.err \in {"ConfigurationError", "InternalInvariantViolation"}
          => m_status' = m_status]_vars


\* the occurrence s of a coupled dof is the column of a nonzero entry of the
\* jump matrix of its patch
HasJumpRow(s) ==
    \E rc \in DOMAIN m_jumpMatrices[s.patch].val :
       /\ rc[2] = m_dofMapperLocal[s.patch].index[s.idx]
       /\ m_jumpMatrices[s.patch].val[rc] # 0

\* the occurrence s is a corner function of its patch and the patch holds a
\* primal constraint that is the unit row of its local index
HasCornerConstraint(s) ==
    /\ \E c \in DOMAIN m_multiBasis.corner[s.patch] :
          m_multiBasis.corner[s.patch][c] = s.idx
    /\ \E n \in DOMAIN m_primalConstraints[s.patch] :
          DOMAIN m_primalConstraints[s.patch][n].nz =
            {m_dofMapperLocal[s.patch].index[s.idx]}

\* cornersAsPrimals and computeJumpMatrices have both completed on a mapper
\* without artificial dofs
CornersAndJumpsDone ==
    /\ Usable
    /\ HasFlag(m_status, 8) /\ HasFlag(m_status, 4)
    /\ ~HasArtificialDofs(m_status)
    /\ m_jumpMatrices # Empty

\* C26  Continuity coverage: after cornersAsPrimals and computeJumpMatrices
\* have both run, in either order and with any flag values, on a mapper
\* without artificial dofs, every occurrence (patch, local free dof) of
\* every coupled global dof is the column of a nonzero entry of a jump-matrix
\* row or carries a corner primal constraint
C26_ContinuityCoverage ==
    CornersAndJumpsDone
      => \A c \in 0..(m_dofMapperGlobal.coupledSize - 1) :
            \A s \in Occurrences(c) : HasJumpRow(s) \/ HasCornerConstraint(s)


\* C27: in every state after init and any sequence of builder calls, every
\* patch has as many primal ids as primal constraint rows, and every stored
\* primal id lies in 0 .. m_nPrimalDofs - 1
C27_PrimalListsConsistent ==
    IsInitialized(m_status)
      => /\ DOMAIN m_primalConstraints = DOMAIN m_primalDofIndices
         /\ \A k \in DOMAIN m_primalConstraints :
               /\ Size(m_primalConstraints[k]) = Size(m_primalDofIndices[k])
               /\ \A n \in DOMAIN m_primalDofIndices[k] :
                     m_primalDofIndices[k][n] \in 0..(m_nPrimalDofs - 1)

\* corners, interface averages and custom constraints were all registered;
\* the patches hold lists of different lengths and the last id is in use
C27_Witness ==
    /\ IsInitialized(m_status)
    /\ HasFlag(m_status, 8) /\ HasFlag(m_status, 16) /\ customCalls > 0
    /\ m_nPrimalDofs >= 4
    /\ \E k \in DOMAIN m_primalDofIndices, j \in DOMAIN m_primalDofIndices :
          /\ Size(m_primalDofIndices[k]) > Size(m_primalDofIndices[j])
          /\ Size(m_primalDofIndices[j]) > 0
    /\ \E k \in DOMAIN m_primalDofIndices :
          \E n \in DOMAIN m_primalDofIndices[k] :
             m_primalDofIndices[k][n] = m_nPrimalDofs - 1


\* C28: cornersAsPrimals never registers the same constraint twice: among
\* the constraints the call adds, a patch holds at most one unit row per
\* local index and primal id, with or without artificial dofs, also when the
\* same global corner dof is a corner of several patches
C28_NoDuplicateCorner ==
    [][(call'.op = "cornersAsPrimals" /\ call'.err = "ok")
         => \A e \in AddedConstraints, f \in AddedConstraints :
               (/\ e.patch = f.patch
                /\ m_primalDofIndices'[e.patch][e.pos] = m_primalDofIndices'[f.patch][f.pos]
                /\ m_primalConstraints'[e.patch][e.pos] = m_primalConstraints'[f.patch][f.pos])
                 => e = f]_vars


\* the jump matrices that computeJumpMatrices yields when it is the first
\* call after the init that set up the mapper
JumpMatricesRightAfterInit(fullyRedundant, excludeCorners) ==
    JumpResult(m_multiBasis, m_dofMapperGlobal,
               [k \in 0..(m_dofMapperGlobal.numPatches - 1) |->
                   InitLocalMapper(m_dofMapperGlobal, k)],
               fullyRedundant, excludeCorners)

\* C29: computeJumpMatrices leaves the primal-dof count and the primal
\* constraints and primal ids of every patch unchanged; each primal builder
\* leaves the jump matrices, the local mappers and the fixed-value vectors
\* unchanged; hence the jump matrices that computeJumpMatrices produces after
\* any builder calls are those it produces right after init
C29_FrameEffects ==
    [][/\ call'.op = "computeJumpMatrices"
            => UNCHANGED <<m_nPrimalDofs, m_primalConstraints, m_primalDofIndices>>
       /\ call'.op \in Builders
            => UNCHANGED <<m_jumpMatrices, m_dofMapperLocal, m_fixedPart>>
       /\ (call'.op = "computeJumpMatrices" /\ call'.err # "SequencingError")
            => LET first == JumpMatricesRightAfterInit(call'.args.fullyRedundant,
                                                       call'.args.excludeCorners)
               IN /\ call'.err = first.err
                  /\ call'.err = "ok" => m_jumpMatrices' = first.jumpMatrices]_vars

\* computeJumpMatrices completed after corners, interface averages and
\* custom constraints had been registered, and left them in place
C29_Witness ==
    /\ call.op = "computeJumpMatrices" /\ call.err = "ok"
    /\ HasFlag(m_status, 8) /\ HasFlag(m_status, 16) /\ customCalls > 0
    /\ m_nPrimalDofs >= 4
    /\ \E k \in DOMAIN m_primalConstraints : Size(m_primalConstraints[k]) >= 3
    /\ m_jumpMatrices[0].rows > 0


\* the artificial-dof table that init with the arguments id builds on a
\* newly constructed mapper
FreshArtificialDofInfo(id) ==
    LET dm == Input(id).mapper
        run == InitTable[id]
    IN IF run.err = "artificial"
       THEN ArtificialPass(dm, run.local, run.owners, run.artificialSlots, 1,
                           ClearResize(Empty, dm.numPatches)).info
       ELSE Empty

\* C30: the state after a completed init depends only on the arguments of
\* that call: whatever the mapper was used for before, the phase flags, the
\* primal data, the jump matrices, the local mappers and the artificial-dof
\* table are those of a newly constructed mapper initialized with the same
\* arguments
C30_InitDependsOnlyOnArguments ==
    [][(call'.op = "init" /\ call'.err = "ok")
         => LET run == InitTable[call'.args]
            IN /\ m_status' = run.status
               /\ m_multiBasis' = Input(call'.args).basis
               /\ m_dofMapperGlobal' = Input(call'.args).mapper
               /\ m_dofMapperLocal' = run.local
               /\ m_fixedPart' = run.fixed
               /\ m_nPrimalDofs' = 0
               /\ m_jumpMatrices' = Empty
               /\ \A k \in DOMAIN m_primalConstraints' :
                     m_primalConstraints'[k] = Empty /\ m_primalDofIndices'[k] = Empty
               /\ m_artificialDofInfo' = FreshArtificialDofInfo(call'.args)]_vars

=============================================================================
